---- MODULE Spec2Model ----
(***************************************************************************)
(* A state-machine model of bayeslite's Crosscat metamodel                 *)
(* (src/src/crosscat.py): the persisted relational state (the schema       *)
(* marker and tables, the generator metadata, column and code map rows,    *)
(* the per-model theta blobs, the host's per-model iteration counters, the *)
(* user table) and the operations on it.  The inference engine is an       *)
(* external capability: its latent states are opaque, its analyze is       *)
(* nondeterministic (a seed), and it may raise.                            *)
(*                                                                         *)
(* Spec and FairSpec follow initialize, analyze and insertmany on a        *)
(* created generator; QuerySpec adds two queries; StoreSpec follows        *)
(* register, create_generator, drop_generator, initialize, the two value   *)
(* conversions and two queries from a store before register; ReadSpec      *)
(* puts the nine queries to generators with and without models; DropSpec   *)
(* creates and drops two generators, with statements that may raise.       *)
(***************************************************************************)
EXTENDS Integers, Sequences, FiniteSets, TLC

(***************************************************************************)
(* Bounds of the model.                                                    *)
(***************************************************************************)
\* analyze is called with iterations in 0..MaxIterations (or None).
MaxIterations == 2
\* analyze is called with max_seconds in 0..MaxSeconds (or None).
MaxSeconds == 1
\* The host's iteration counters are followed up to MaxCounter.
MaxCounter == 2
\* The user table is followed up to MaxRows rows.
MaxRows == 3

\* The store holds one generator; sqlite assigns generator ids from 1.
Generators == {1}
\* The model numbers the generator's models take.
Modelnos == {0, 1}

(***************************************************************************)
(* Python values.                                                          *)
(***************************************************************************)
\* Python's None for an optional argument, and a present argument.
None == <<>>
Some(x) == <<x>>

Min(a, b) == IF a <= b THEN a ELSE b

\* Python's zip stops at the shortest of its arguments.
ZipLen(a, b, c, d) == Min(Min(Len(a), Len(b)), Min(Len(c), Len(d)))

\* Raw SQL values of the user table: NULL, a text, an integer.
Null == [t |-> "null", s |-> "", n |-> 0]
Text(s) == [t |-> "text", s |-> s, n |-> 0]
Integer(n) == [t |-> "int", s |-> "", n |-> n]

\* Codes handed to the engine: floats, NaN for a missing value.  KeyError
\* stands for the exception crosscat_value_to_code raises.
NaN == [t |-> "nan", n |-> 0]
Float(n) == [t |-> "float", n |-> n]
KeyError == [t |-> "KeyError", n |-> 0]

(***************************************************************************)
(* The state.                                                              *)
(***************************************************************************)
VARIABLES
    \* the host's table bayesdb_metamodel, for name 'crosscat': None when no
    \* row exists, else Some(version)
    bayesdb_metamodel,
    \* the crosscat tables that exist in the store (sqlite_master)
    sqlite_master,
    \* table bayesdb_crosscat_disttype: rows <<name, stattype, default_dist>>
    bayesdb_crosscat_disttype,
    \* the host's table bayesdb_generator_column: generator_id |-> the
    \* generator's column_list, for the generators that exist
    bayesdb_generator_column,
    \* the host's table bayesdb_generator_model: <<generator_id, modelno>>
    \* |-> iterations, for the models that exist
    bayesdb_generator_model,
    \* table bayesdb_crosscat_theta: <<generator_id, modelno>> |-> theta_json
    bayesdb_crosscat_theta,
    \* table bayesdb_crosscat_metadata: generator_id |-> metadata_json
    bayesdb_crosscat_metadata,
    \* table bayesdb_crosscat_column: rows [generator_id, colno, cc_colno,
    \* disttype]
    bayesdb_crosscat_column,
    \* table bayesdb_crosscat_column_codemap: rows [generator_id, cc_colno,
    \* code, value]
    bayesdb_crosscat_column_codemap,
    \* the rows of the user table, in rowid order
    table,
    \* the frame of the analyze call in progress (its local variables)
    frame,
    \* the outcome of the last operation, as its caller sees it
    result,
    \* the last call this layer made to the engine in that operation
    engine

\* What register writes, and what create_generator and drop_generator write.
schema_vars == <<bayesdb_metamodel, sqlite_master, bayesdb_crosscat_disttype>>
generator_vars == <<bayesdb_generator_column, bayesdb_crosscat_metadata,
                    bayesdb_crosscat_column, bayesdb_crosscat_column_codemap>>

vars == <<schema_vars, generator_vars, bayesdb_generator_model,
          bayesdb_crosscat_theta, table, frame, result, engine>>

(***************************************************************************)
(* The inference engine (self._crosscat), an external capability.  Latent  *)
(* states are opaque here: X_L carries a state number, X_D also the number *)
(* of rows it covers.  initialize numbers the state of its i-th chain      *)
(* i % 2, so that the pairs of one call differ; in analyze, seed stands    *)
(* for the engine's randomness.                                            *)
(***************************************************************************)
Seeds == {0, 1}
Latent(k, nrows) == [X_L |-> [state |-> k], X_D |-> [state |-> k, rows |-> nrows]]

\* self._crosscat.initialize: one (X_L, X_D) pair per chain; a bare X_L and a
\* bare X_D instead of lists when n_chains is 1 (the source's "XXX Ugh").
EngineInitialize(T, n_chains) ==
    LET X_L_list == [i \in 1..n_chains |-> Latent(i % 2, Len(T)).X_L]
        X_D_list == [i \in 1..n_chains |-> Latent(i % 2, Len(T)).X_D]
    IN  IF n_chains = 1
        THEN [X_L_list |-> X_L_list[1], X_D_list |-> X_D_list[1]]
        ELSE [X_L_list |-> X_L_list, X_D_list |-> X_D_list]

\* self._crosscat.analyze: n_steps transitions of every chain.
EngineAnalyze(X_L_list, X_D_list, n_steps, seed) ==
    [X_L_list |-> [i \in 1..Len(X_L_list) |->
          [state |-> (X_L_list[i].state + n_steps + seed) % 2]],
     X_D_list |-> [i \in 1..Len(X_D_list) |->
          [state |-> (X_D_list[i].state + n_steps + seed) % 2,
           rows |-> X_D_list[i].rows]]]

(***************************************************************************)
(* JSON and SQL values.  A bound SQL parameter and a stored column value   *)
(* carry their storage class; sqlite never finds an INTEGER equal to a     *)
(* TEXT that is not a number.                                              *)
(***************************************************************************)
json_dumps(x) == [t |-> "TEXT", v |-> x]
json_loads(j) == j.v
SqlInteger(n) == [t |-> "INTEGER", v |-> n]
SqlEq(a, b) == a.t = b.t /\ a.v = b.v

\* The model_config initialize uses when it is given None.
default_model_config ==
    [kernel_list |-> <<>>,
     initialization |-> "from_the_prior",
     row_initialization |-> "from_the_prior"]

\* A model_config a caller may pass instead.
custom_model_config ==
    [kernel_list |-> <<"column_hyperparameters">>,
     initialization |-> "from_the_prior",
     row_initialization |-> "from_the_prior"]

\* A theta that starts with one iteration counted.
initial_theta_counted(X_L, X_D, model_config) ==
    [X_L |-> X_L,
     X_D |-> X_D,
     iterations |-> 1,
     column_crp_alpha |-> <<>>,
     logscore |-> <<>>,
     num_views |-> <<>>,
     model_config |-> model_config]

\* The theta initialize stores for one model.
initial_theta(X_L, X_D, model_config) ==
    [X_L |-> X_L,
     X_D |-> X_D,
     iterations |-> 0,
     column_crp_alpha |-> <<>>,
     logscore |-> <<>>,
     num_views |-> <<>>,
     model_config |-> model_config]

(***************************************************************************)
(* The user table and the generators' columns.  The table has two columns, *)
(* colno 0 and colno 1; a generator lists some of them, each with a        *)
(* stattype.                                                               *)
(***************************************************************************)
sql_column_names == <<"cat", "num">>
NumColumns == Len(sql_column_names)

\* An entry (colno, name, stattype) of a column_list.
Column(colno, stattype) ==
    [colno |-> colno, name |-> sql_column_names[colno + 1],
     stattype |-> stattype]

\* The column_list of the generator of Spec: colno 0 is categorical, colno 1
\* numerical.
InitialColumnList == <<Column(0, "categorical"), Column(1, "numerical")>>

\* core.bayesdb_generator_column_stattype: the stattype of a column of a
\* generator. For a colno the generator does not list the host finds no
\* row: whatever it answers then is no stattype crosscat_value_to_code and
\* crosscat_code_to_value know, which is what "ignore" stands for here.
bayesdb_generator_column_stattype(generator_id, colno) ==
    LET columns == bayesdb_generator_column[generator_id]
        hit == {i \in 1..Len(columns) : columns[i].colno = colno}
    IN  IF hit = {} THEN "ignore"
        ELSE columns[CHOOSE i \in hit : TRUE].stattype

\* The texts 0, 1, 2, ...: Python's unicode(n) is Numerals[n + 1], and
\* float(Numerals[n + 1]) is n.
Numerals == <<"0", "1", "2", "3", "4", "5">>

\* Python's unicode(value) of a raw value.
unicode(value) == IF value.t = "int" THEN Numerals[value.n + 1] ELSE value.s

\* The collation order of the text values (ORDER BY of the DISTINCT query).
CatOrder == <<"3", "a", "b", "c", "nan", "x">>

\* The position of x in a sequence of values (0 when absent).
RECURSIVE IndexOf(_, _, _)
IndexOf(seq, x, i) ==
    IF i > Len(seq) THEN 0
    ELSE IF seq[i] = x THEN i
    ELSE IndexOf(seq, x, i + 1)

\* sqlite's ORDER BY among non-null values: numbers first, by value, then
\* texts, by collation.
SqlLess(a, b) ==
    IF a.t = "int" /\ b.t = "int" THEN a.n < b.n
    ELSE IF a.t = "int" THEN TRUE
    ELSE IF b.t = "int" THEN FALSE
    ELSE IndexOf(CatOrder, a.s, 1) < IndexOf(CatOrder, b.s, 1)

\* The rows of the table when the generator of Spec was created.
InitialRows == << <<Text("a"), Integer(1)>>, <<Text("b"), Null>> >>

\* A code map numbered in the order the values are first met in the table,
\* as a SELECT DISTINCT without its ORDER BY gives them.
create_metadata_categorical_unordered(rows, colno) ==
    LET values == {rows[i][colno + 1] : i \in 1..Len(rows)} \ {Null}
        ncodes == Cardinality(values)
        first(v) == CHOOSE i \in 1..Len(rows) :
                       /\ rows[i][colno + 1] = v
                       /\ \A j \in 1..(i - 1) : rows[j][colno + 1] # v
        codes == CHOOSE s \in [1..ncodes -> values] :
                    \A i, j \in 1..ncodes : i < j => first(s[i]) < first(s[j])
    IN  [modeltype |-> "symmetric_dirichlet_discrete",
         value_to_code |-> [c \in 0..(ncodes - 1) |-> codes[c + 1]],
         code_to_value |-> [v \in values |->
                               CHOOSE c \in 0..(ncodes - 1) : codes[c + 1] = v]]

\* create_metadata_categorical: the distinct non-null values of the column,
\* ascending, receive the codes 0..n-1.  Both maps keep the source's
\* (swapped) names: value_to_code maps a code to its value, code_to_value a
\* value to its code.
create_metadata_categorical(rows, colno) ==
    LET values == {rows[i][colno + 1] : i \in 1..Len(rows)} \ {Null}
        ncodes == Cardinality(values)
        codes == CHOOSE s \in [1..ncodes -> values] :
                    \A i, j \in 1..ncodes : i < j => SqlLess(s[i], s[j])
    IN  [modeltype |-> "symmetric_dirichlet_discrete",
         value_to_code |-> [c \in 0..(ncodes - 1) |-> codes[c + 1]],
         code_to_value |-> [v \in values |->
                               CHOOSE c \in 0..(ncodes - 1) : codes[c + 1] = v]]

\* create_metadata_numerical: empty maps.
create_metadata_numerical ==
    [modeltype |-> "normal_inverse_gamma",
     value_to_code |-> [c \in {} |-> Null],
     code_to_value |-> [v \in {} |-> 0]]

\* create_metadata_cyclic: empty maps.
create_metadata_cyclic ==
    [modeltype |-> "vonmises",
     value_to_code |-> [c \in {} |-> Null],
     code_to_value |-> [v \in {} |-> 0]]

\* create_metadata_ignore: the categorical metadata, labelled ignore.
create_metadata_ignore(rows, colno) ==
    [create_metadata_categorical(rows, colno) EXCEPT !.modeltype = "ignore"]

\* create_metadata_key(bdb, table, colno) uses generator_id, a name it does
\* not have: calling it raises NameError.
create_metadata_key_raises == TRUE

\* metadata_creators[casefold(stattype)](bdb, generator_id, colno).
metadata_creators(stattype, rows, colno) ==
    IF stattype = "categorical" THEN create_metadata_categorical(rows, colno)
    ELSE IF stattype = "cyclic" THEN create_metadata_cyclic
    ELSE IF stattype = "ignore" THEN create_metadata_ignore(rows, colno)
    ELSE create_metadata_numerical

\* Whether create_metadata raises: a creator it calls does.
create_metadata_raises(column_list) ==
    \E i \in 1..Len(column_list) :
        column_list[i].stattype = "key" /\ create_metadata_key_raises

\* create_metadata: one column_metadata entry per entry of column_list, in
\* its order (the name maps of the blob, which this layer never reads, are
\* left out).
create_metadata(rows, column_list) ==
    [column_metadata |->
        [cc_colno \in 0..(Len(column_list) - 1) |->
            metadata_creators(column_list[cc_colno + 1].stattype, rows,
                              column_list[cc_colno + 1].colno)]]

\* The document json.dumps writes for a metadata, as json.loads gives it
\* back: the keys of every map are texts.
json_metadata(metadata) ==
    [column_metadata |->
        [cc_colno \in DOMAIN metadata.column_metadata |->
            LET m == metadata.column_metadata[cc_colno]
            IN  [modeltype |-> m.modeltype,
                 value_to_code |->
                     [k \in {Numerals[c + 1] : c \in DOMAIN m.value_to_code} |->
                         m.value_to_code[IndexOf(Numerals, k, 1) - 1]],
                 code_to_value |->
                     [k \in {unicode(v) : v \in DOMAIN m.code_to_value} |->
                         m.code_to_value[CHOOSE v \in DOMAIN m.code_to_value :
                                             unicode(v) = k]]]]]

\* crosscat_metadata: the metadata blob of a generator, loaded.
crosscat_metadata(generator_id) ==
    json_loads(bayesdb_crosscat_metadata[generator_id])

\* crosscat_cc_colno: the cc_colno of the generator's bayesdb_crosscat_column
\* row for colno; ValueError when there is none.
crosscat_cc_colno_raises(generator_id, colno) ==
    ~\E r \in bayesdb_crosscat_column :
        r.generator_id = generator_id /\ r.colno = colno

crosscat_cc_colno(generator_id, colno) ==
    (CHOOSE r \in bayesdb_crosscat_column :
        r.generator_id = generator_id /\ r.colno = colno).cc_colno

\* Python's float(value): a number, the number a text spells, NaN for the
\* text nan; NaN also where the source catches ValueError or TypeError.
float(value) ==
    IF value.t = "int" THEN Float(value.n)
    ELSE IF value.t = "text" /\ IndexOf(Numerals, value.s, 1) > 0
    THEN Float(IndexOf(Numerals, value.s, 1) - 1)
    ELSE NaN

\* A codification that takes a value the code map lacks for a missing one.
crosscat_value_to_code_lenient(generator_id, M_c, colno, value) ==
    LET stattype == bayesdb_generator_column_stattype(generator_id, colno)
    IN  IF stattype = "categorical"
        THEN IF value = Null THEN NaN
             ELSE LET cc_colno == crosscat_cc_colno(generator_id, colno)
                      key == unicode(value)
                      map == M_c.column_metadata[cc_colno].code_to_value
                  IN  IF key \in DOMAIN map THEN Float(map[key]) ELSE NaN
        ELSE IF stattype \in {"cyclic", "numerical"}
        THEN float(value)
        ELSE KeyError

\* crosscat_value_to_code.
crosscat_value_to_code(generator_id, M_c, colno, value) ==
    LET stattype == bayesdb_generator_column_stattype(generator_id, colno)
    IN  IF stattype = "categorical"
        THEN IF value = Null THEN NaN
             ELSE LET cc_colno == crosscat_cc_colno(generator_id, colno)
                      key == unicode(value)
                      map == M_c.column_metadata[cc_colno].code_to_value
                  IN  IF key \in DOMAIN map THEN Float(map[key])
                      ELSE KeyError
        ELSE IF stattype \in {"cyclic", "numerical"}
        THEN float(value)
        ELSE KeyError

\* crosscat_data: the codified data matrix of the whole table, over the
\* generator's columns in colno order.
crosscat_data(generator_id, M_c, rows) ==
    LET columns == bayesdb_generator_column[generator_id]
    IN  [i \in 1..Len(rows) |->
            [j \in 1..Len(columns) |->
                crosscat_value_to_code(generator_id, M_c, columns[j].colno,
                                       rows[i][columns[j].colno + 1])]]

\* Whether crosscat_data raises: the codification of some value does.
crosscat_data_raises(generator_id, M_c, rows) ==
    LET columns == bayesdb_generator_column[generator_id]
    IN  \E i \in 1..Len(rows) : \E j \in 1..Len(columns) :
            crosscat_value_to_code(generator_id, M_c, columns[j].colno,
                                   rows[i][columns[j].colno + 1]) = KeyError

(***************************************************************************)
(* The schema and the generator tables                                     *)
(***************************************************************************)
\* crosscat_schema_v1: what executing its statements leaves in the store:
\* the version marker, the disttype catalogue and the four other tables.
crosscat_schema_v1 ==
    [bayesdb_metamodel |-> Some(1),
     sqlite_master |-> {"bayesdb_crosscat_disttype",
                        "bayesdb_crosscat_metadata",
                        "bayesdb_crosscat_column",
                        "bayesdb_crosscat_column_codemap",
                        "bayesdb_crosscat_theta"},
     bayesdb_crosscat_disttype |->
        {[name |-> "normal_inverse_gamma", stattype |-> "numerical",
          default_dist |-> 1],
         [name |-> "symmetric_dirichlet_discrete", stattype |-> "categorical",
          default_dist |-> 1],
         [name |-> "vonmises", stattype |-> "cyclic", default_dist |-> 1]}]

\* The rows insert_column_sql adds in create_generator: enumerate gives
\* every entry of column_list, whatever its stattype, the next cc_colno.
insert_column_sql(generator_id, column_list, metadata) ==
    {[generator_id |-> generator_id,
      colno |-> column_list[i].colno,
      cc_colno |-> i - 1,
      disttype |-> metadata.column_metadata[i - 1].modeltype] :
        i \in 1..Len(column_list)}

\* The rows insert_codemap_sql adds in create_generator: one per code of
\* each column's value_to_code; the value column has TEXT affinity.
insert_codemap_sql(generator_id, column_list, metadata) ==
    UNION {LET codemap == metadata.column_metadata[i - 1].value_to_code
           IN  {[generator_id |-> generator_id,
                 cc_colno |-> i - 1,
                 code |-> code,
                 value |-> Text(unicode(codemap[code]))] :
                    code \in DOMAIN codemap} :
        i \in 1..Len(column_list)}

\* Leave out the rows of a generator (DELETE ... WHERE generator_id = ?).
delete_sql(rows, generator_id) ==
    {r \in rows : r.generator_id # generator_id}

\* Leave out the entries of a generator from a table keyed by generator_id.
delete_metadata_sql(blobs, generator_id) ==
    [g \in (DOMAIN blobs) \ {generator_id} |-> blobs[g]]

\* Leave out the entries of a generator from a table keyed by
\* (generator_id, modelno).
delete_models_sql(thetas, generator_id) ==
    [k \in {k \in DOMAIN thetas : k[1] # generator_id} |-> thetas[k]]

Keys == Generators \X Modelnos

\* No analyze call is in progress.
Idle == [pc |-> "idle"]

\* What the caller of an operation sees: the operation, whether it returned
\* ("ok"), raised ("error") or is still running, and the exception; and, as
\* bookkeeping, whether a savepoint discarded writes of it (undone) and how
\* many batches of an analyze call completed (batches).
Outcome(op, status, error, undone, batches) ==
    [op |-> op, status |-> status, error |-> error, undone |-> undone,
     batches |-> batches]

\* No engine call yet in the current operation.
NoEngineCall ==
    [fn |-> "none", ncalls |-> 0, n |-> 0, kernel_list |-> <<>>, T |-> <<>>,
     seed |-> 0]

\* The store after register and, for every generator, create_generator
\* with InitialColumnList on a table holding InitialRows.
Init ==
    /\ bayesdb_metamodel = crosscat_schema_v1.bayesdb_metamodel
    /\ sqlite_master = crosscat_schema_v1.sqlite_master
    /\ bayesdb_crosscat_disttype = crosscat_schema_v1.bayesdb_crosscat_disttype
    /\ bayesdb_generator_column = [g \in Generators |-> InitialColumnList]
    /\ bayesdb_generator_model = [k \in {} |-> 0]
    /\ bayesdb_crosscat_theta = [k \in {} |-> json_dumps(0)]
    /\ bayesdb_crosscat_metadata =
          [g \in Generators |->
              json_dumps(json_metadata(create_metadata(InitialRows,
                                                       InitialColumnList)))]
    /\ bayesdb_crosscat_column =
          UNION {insert_column_sql(g, InitialColumnList,
                     create_metadata(InitialRows, InitialColumnList)) :
                 g \in Generators}
    /\ bayesdb_crosscat_column_codemap =
          UNION {insert_codemap_sql(g, InitialColumnList,
                     create_metadata(InitialRows, InitialColumnList)) :
                 g \in Generators}
    /\ table = InitialRows
    /\ frame = Idle
    /\ result = Outcome("create_generator", "ok", "", FALSE, 0)
    /\ engine = NoEngineCall

(***************************************************************************)
(* initialize                                                              *)
(***************************************************************************)
\* The host's INITIALIZE inserts one bayesdb_generator_model row, with
\* iterations 0, per requested model that has none, before it calls the
\* metamodel's initialize.
HostInsertModels(gm, generator_id, modelnos) ==
    LET new == {<<generator_id, modelnos[i]>> : i \in 1..Len(modelnos)}
    IN  [k \in (DOMAIN gm) \cup new |-> IF k \in DOMAIN gm THEN gm[k] ELSE 0]

\* The INSERT loop of initialize, from the i-th requested model on: each
\* INSERT is its own statement (initialize opens no savepoint), and one that
\* meets an existing (generator_id, modelno) row violates the primary key
\* and raises, the rows inserted before it staying.
RECURSIVE insert_thetas(_, _, _, _, _, _, _)
insert_thetas(th, generator_id, modelnos, X_L_list, X_D_list, model_config, i) ==
    IF i > Min(Len(modelnos), Min(Len(X_L_list), Len(X_D_list)))
    THEN [theta |-> th, raised |-> FALSE]
    ELSE LET key == <<generator_id, modelnos[i]>>
             theta == initial_theta(X_L_list[i], X_D_list[i], model_config)
         IN  IF key \in DOMAIN th
             THEN [theta |-> th, raised |-> TRUE]
             ELSE insert_thetas(th @@ (key :> json_dumps(theta)), generator_id,
                                modelnos, X_L_list, X_D_list, model_config, i + 1)

\* The model_config initialize works with.
initialize_model_config(model_config) ==
    IF model_config = None THEN default_model_config ELSE model_config[1]

\* CrosscatMetamodel.initialize(bdb, generator_id, modelnos, model_config).
initialize(generator_id, modelnos, model_config, engine_raises) ==
    LET config == initialize_model_config(model_config)
        M_c == crosscat_metadata(generator_id)
        T == crosscat_data(generator_id, M_c, table)
        n_chains == Len(modelnos)
        ret == EngineInitialize(T, n_chains)
        X_L_list == IF n_chains = 1 THEN <<ret.X_L_list>> ELSE ret.X_L_list
        X_D_list == IF n_chains = 1 THEN <<ret.X_D_list>> ELSE ret.X_D_list
        ins == insert_thetas(bayesdb_crosscat_theta, generator_id, modelnos,
                             X_L_list, X_D_list, config, 1)
        res(status, error) ==
            Outcome("initialize", status, error, FALSE, 0)
    IN  /\ frame = Idle
        /\ generator_id \in DOMAIN bayesdb_generator_column
        /\ bayesdb_generator_model' =
               HostInsertModels(bayesdb_generator_model, generator_id, modelnos)
        /\ UNCHANGED <<schema_vars, generator_vars, table, frame>>
        /\ IF crosscat_data_raises(generator_id, M_c, table)
           THEN /\ result' = res("error", "KeyError")
                /\ engine' = NoEngineCall
                /\ UNCHANGED bayesdb_crosscat_theta
           ELSE /\ engine' = [fn |-> "initialize", ncalls |-> 1, n |-> n_chains,
                              kernel_list |-> <<>>, T |-> T,
                              seed |-> 0]
                /\ IF engine_raises
                   THEN /\ result' = res("error", "EngineError")
                        /\ UNCHANGED bayesdb_crosscat_theta
                   ELSE /\ bayesdb_crosscat_theta' = ins.theta
                        /\ result' = IF ins.raised
                                     THEN res("error", "IntegrityError")
                                     ELSE res("ok", "")

\* The lists of model numbers a caller passes: one or two numbers.
ModelnoLists ==
    UNION {[1..n -> Modelnos] : n \in 1..2}

ModelConfigs == {None, Some(custom_model_config)}

Initialize ==
    \E generator_id \in Generators, modelnos \in ModelnoLists,
       model_config \in ModelConfigs, engine_raises \in BOOLEAN :
        initialize(generator_id, modelnos, model_config, engine_raises)

(***************************************************************************)
(* analyze                                                                 *)
(***************************************************************************)
\* The columns of table bayesdb_crosscat_theta (crosscat_schema_v1).
bayesdb_crosscat_theta_columns == {"generator_id", "modelno", "theta_json"}

\* The column theta_sql selects.
theta_sql_column == "theta"

\* The model numbers of a set of keys, ascending (ORDER BY m.modelno).
RECURSIVE OrderByModelno(_)
OrderByModelno(keys) ==
    IF keys = {} THEN <<>>
    ELSE LET k == CHOOSE x \in keys : \A y \in keys : x[2] <= y[2]
         IN  <<k[2]>> \o OrderByModelno(keys \ {k})

\* models_sql: the model numbers of the generator that have both a
\* bayesdb_generator_model row and a theta row, ascending.
models_sql(gm, th, generator_id) ==
    OrderByModelno({k \in (DOMAIN gm) \cap (DOMAIN th) : k[1] = generator_id})

\* update_iterations_sql with its three parameters in the order of its
\* placeholders:  SET iterations = iterations + ?1
\*                WHERE generator_id = ?2 AND modelno = ?3.
update_iterations_sql(gm, p1, p2, p3) ==
    [k \in DOMAIN gm |->
        IF SqlEq(SqlInteger(k[1]), p2) /\ SqlEq(SqlInteger(k[2]), p3)
        THEN gm[k] + p1.v
        ELSE gm[k]]

\* update_theta_sql with its three parameters in the order of its
\* placeholders:  SET theta_json = ?1
\*                WHERE generator_id = ?2 AND modelno = ?3.
update_theta_sql(th, p1, p2, p3) ==
    [k \in DOMAIN th |->
        IF SqlEq(SqlInteger(k[1]), p2) /\ SqlEq(SqlInteger(k[2]), p3)
        THEN p1
        ELSE th[k]]

\* The parameters the persist loop binds to update_iterations_sql.
update_iterations_parameters(generator_id, modelno, n_steps) ==
    <<SqlInteger(generator_id), SqlInteger(modelno), SqlInteger(n_steps)>>

\* The parameters the persist loop binds to update_theta_sql.
update_theta_parameters(generator_id, modelno, theta) ==
    <<SqlInteger(generator_id), SqlInteger(modelno), json_dumps(theta)>>

\* The first nstmts statements of the persist loop (two per model: the
\* counter UPDATE, then the theta UPDATE), from the i-th model on.
RECURSIVE persist(_, _, _, _, _, _, _, _, _, _)
persist(gm, th, generator_id, update_modelnos, thetas, X_L_list, X_D_list, n_steps, i, nstmts) ==
    IF i > ZipLen(update_modelnos, thetas, X_L_list, X_D_list) \/ nstmts = 0
    THEN [gm |-> gm, th |-> th]
    ELSE LET theta == [thetas[i] EXCEPT !.iterations = @ + n_steps,
                                        !.X_L = X_L_list[i],
                                        !.X_D = X_D_list[i]]
             pi == update_iterations_parameters(generator_id,
                       update_modelnos[i], n_steps)
             pt == update_theta_parameters(generator_id,
                       update_modelnos[i], theta)
             gm1 == update_iterations_sql(gm, pi[1], pi[2], pi[3])
             th1 == IF nstmts = 1 THEN th
                    ELSE update_theta_sql(th, pt[1], pt[2], pt[3])
         IN  persist(gm1, th1, generator_id, update_modelnos, thetas,
                     X_L_list, X_D_list, n_steps, i + 1,
                     IF nstmts = 1 THEN 0 ELSE nstmts - 2)

\* A block that runs outside any savepoint.
savepoint_missing(before, reached, raised) == reached

\* with bdb.savepoint(): the state a block leaves, given the state at its
\* start, the state it reached, and whether it raised.
savepoint(before, reached, raised) == IF raised THEN before ELSE reached

\* A loop condition that does not look at the clock.
loop_condition_untimed(iterations, max_seconds, now, deadline) ==
    IF iterations = None THEN TRUE ELSE 0 < iterations[1]

\* The loop condition of analyze.
loop_condition(iterations, max_seconds, now, deadline) ==
    /\ (IF iterations = None THEN TRUE ELSE 0 < iterations[1])
    /\ (IF max_seconds = None THEN TRUE ELSE now < deadline)

\* Batches of one step each, whatever the bounds.
batch_n_steps_one(iterations, max_seconds) == 1

\* The n_steps of one batch.
batch_n_steps(iterations, max_seconds) ==
    IF iterations # None /\ max_seconds = None THEN iterations[1] ELSE 1

\* An iteration budget that is never charged.
remaining_iterations_kept(iterations, n_steps) == iterations

\* iterations -= n_steps, when an iteration budget was given.
remaining_iterations(iterations, n_steps) ==
    IF iterations # None THEN Some(iterations[1] - n_steps) ELSE iterations

\* The load of the targeted models' thetas at the start of a batch:
\* update_modelnos is bound only when modelnos is None.
load_thetas(gm, th, generator_id, modelnos) ==
    IF modelnos = None
    THEN LET ms == models_sql(gm, th, generator_id)
         IN  [raised |-> FALSE, error |-> "",
              update_modelnos_bound |-> TRUE, update_modelnos |-> ms,
              thetas |-> [i \in 1..Len(ms) |->
                            json_loads(th[<<generator_id, ms[i]>>])]]
    ELSE LET ms == modelnos[1]
             unbound(raised, error, thetas) ==
                 [raised |-> raised, error |-> error,
                  update_modelnos_bound |-> FALSE, update_modelnos |-> <<>>,
                  thetas |-> thetas]
         IN  IF ms # <<>> /\ theta_sql_column \notin bayesdb_crosscat_theta_columns
             THEN unbound(TRUE, "OperationalError", <<>>)
             ELSE IF \E i \in 1..Len(ms) : <<generator_id, ms[i]>> \notin DOMAIN th
             THEN unbound(TRUE, "ValueError", <<>>)
             ELSE unbound(FALSE, "", [i \in 1..Len(ms) |->
                            json_loads(th[<<generator_id, ms[i]>>])])

\* One batch of analyze, inside its savepoint.  fail_at forces a failure:
\* 1 makes the engine raise, s + 1 makes the s-th statement of the persist
\* loop raise; 0, or a statement the loop does not have, forces none.
analyze_batch(fr, gm, th, seed, fail_at) ==
    LET n_steps == batch_n_steps(fr.iterations, fr.max_seconds)
        ld == load_thetas(gm, th, fr.generator_id, fr.modelnos)
        thetas == ld.thetas
        X_L_list == [i \in 1..Len(thetas) |-> thetas[i].X_L]
        X_D_list == [i \in 1..Len(thetas) |-> thetas[i].X_D]
        kernel_list == thetas[1].model_config.kernel_list
        ret == EngineAnalyze(X_L_list, X_D_list, n_steps, seed)
        nloop == ZipLen(ld.update_modelnos, thetas, ret.X_L_list, ret.X_D_list)
        nstmts == IF fail_at >= 2 /\ fail_at - 1 <= 2 * nloop
                  THEN fail_at - 2 ELSE 2 * nloop
        done == persist(gm, th, fr.generator_id, ld.update_modelnos, thetas,
                        ret.X_L_list, ret.X_D_list, n_steps, 1, nstmts)
        call == [fn |-> "analyze", ncalls |-> 1, n |-> n_steps,
                 kernel_list |-> kernel_list, T |-> fr.T, seed |-> seed]
        out(raised, error, reached, eng) ==
            [raised |-> raised, error |-> error, n_steps |-> n_steps,
             gm |-> savepoint(gm, reached.gm, raised),
             th |-> savepoint(th, reached.th, raised),
             dirty |-> reached.gm # gm \/ reached.th # th,
             engine |-> eng]
        same == [gm |-> gm, th |-> th]
    IN  IF ld.raised THEN out(TRUE, ld.error, same, NoEngineCall)
        ELSE IF ~(0 < Len(thetas))
        THEN out(TRUE, "AssertionError", same, NoEngineCall)
        ELSE IF fail_at = 1 THEN out(TRUE, "EngineError", same, call)
        ELSE IF ~ld.update_modelnos_bound
        THEN out(TRUE, "NameError", same, call)
        ELSE IF nstmts < 2 * nloop THEN out(TRUE, "DatabaseError", done, call)
        ELSE out(FALSE, "", done, call)

\* analyze(bdb, generator_id, modelnos, iterations, max_seconds), up to its
\* loop: it reads M_c and T and sets the deadline.
analyze(generator_id, modelnos, iterations, max_seconds) ==
    LET M_c == crosscat_metadata(generator_id)
    IN  /\ frame = Idle
        /\ engine' = NoEngineCall
        /\ UNCHANGED <<schema_vars, generator_vars, bayesdb_generator_model,
                       bayesdb_crosscat_theta, table>>
        /\ IF crosscat_data_raises(generator_id, M_c, table)
           THEN /\ frame' = Idle
                /\ result' = Outcome("analyze", "error", "KeyError", FALSE, 0)
           ELSE /\ frame' = [pc |-> "analyze",
                             generator_id |-> generator_id,
                             modelnos |-> modelnos,
                             iterations |-> iterations,
                             max_seconds |-> max_seconds,
                             T |-> crosscat_data(generator_id, M_c, table),
                             now |-> 0,
                             deadline |-> IF max_seconds = None THEN 0
                                          ELSE max_seconds[1],
                             \* bookkeeping of the call, not program state
                             given |-> iterations,
                             batches |-> 0,
                             steps |-> 0,
                             before |-> [gm |-> bayesdb_generator_model,
                                         th |-> bayesdb_crosscat_theta]]
                /\ result' = Outcome("analyze", "running", "", FALSE, 0)

\* The loop condition is false: analyze returns.
analyze_return ==
    /\ frame.pc = "analyze"
    /\ ~loop_condition(frame.iterations, frame.max_seconds, frame.now,
                       frame.deadline)
    /\ frame' = Idle
    /\ result' = Outcome("analyze", "ok", "", FALSE, frame.batches)
    /\ UNCHANGED <<schema_vars, generator_vars, bayesdb_generator_model,
                   bayesdb_crosscat_theta, table, engine>>

\* The loop condition is true: one batch runs, and takes dt seconds.  A
\* batch that raises ends the call; the counters are followed up to
\* MaxCounter.
analyze_loop(seed, fail_at, dt) ==
    LET b == analyze_batch(frame, bayesdb_generator_model,
                           bayesdb_crosscat_theta, seed, fail_at)
    IN  /\ frame.pc = "analyze"
        /\ loop_condition(frame.iterations, frame.max_seconds, frame.now,
                          frame.deadline)
        /\ \A k \in DOMAIN b.gm : b.gm[k] <= MaxCounter
        /\ bayesdb_generator_model' = b.gm
        /\ bayesdb_crosscat_theta' = b.th
        /\ engine' = [b.engine EXCEPT !.ncalls = Min(engine.ncalls + @, 2)]
        /\ UNCHANGED <<schema_vars, generator_vars, table>>
        /\ IF b.raised
           THEN /\ frame' = Idle
                /\ result' = Outcome("analyze", "error", b.error, b.dirty,
                                      frame.batches)
           ELSE /\ frame' = [frame EXCEPT
                      !.iterations = remaining_iterations(@, b.n_steps),
                      !.now = Min(@ + dt, MaxSeconds + 1),
                      !.batches = Min(@ + 1, MaxIterations + 1),
                      !.steps = Min(@ + b.n_steps, MaxIterations + 1)]
                /\ UNCHANGED result

\* The arguments a caller passes to analyze.
AnalyzeModelnos == {None, Some(<<0>>)}
AnalyzeIterations == {None} \cup {Some(k) : k \in 0..MaxIterations}
AnalyzeMaxSeconds == {None} \cup {Some(k) : k \in 0..MaxSeconds}
FailPoints == 0..(2 * Cardinality(Modelnos) + 1)

Analyze ==
    \E generator_id \in Generators, modelnos \in AnalyzeModelnos,
       iterations \in AnalyzeIterations, max_seconds \in AnalyzeMaxSeconds :
        analyze(generator_id, modelnos, iterations, max_seconds)

AnalyzeLoop ==
    \E seed \in Seeds, fail_at \in FailPoints,
       dt \in IF frame.pc = "analyze" /\ frame.max_seconds # None
              THEN {0, 1} ELSE {0} :
        analyze_loop(seed, fail_at, dt)

AnalyzeReturn == analyze_return

(***************************************************************************)
(* insertmany                                                              *)
(***************************************************************************)
\* self._crosscat.insert: the latent states extended by the new rows, and
\* the data matrix it was given with the new rows appended.
EngineInsert(T, X_L_list, X_D_list, new_rows) ==
    [X_L_list |-> X_L_list,
     X_D_list |-> [i \in 1..Len(X_D_list) |->
          [X_D_list[i] EXCEPT !.rows = @ + Len(new_rows)]],
     T |-> T \o new_rows]

\* The rows of models_sql as insertmany keeps them: (modelno, theta_json)
\* tuples, the theta_json still the stored text.
insertmany_models(gm, th, generator_id) ==
    LET ms == models_sql(gm, th, generator_id)
    IN  [i \in 1..Len(ms) |-> <<ms[i], th[<<generator_id, ms[i]>>]>>]

\* Whether x[key] raises TypeError: x is a text, not a loaded document.
subscript_raises(x) == x.t = "TEXT"

\* CrosscatMetamodel.insertmany(bdb, generator_id, rows), in its savepoint.
insertmany(generator_id, rows, engine_raises) ==
    LET ncols == Len(sql_column_names)
        \* the rows inserted before the first row of a wrong length
        bad == {i \in 1..Len(rows) : Len(rows[i]) # ncols}
        inserted == IF bad = {} THEN rows
                    ELSE SubSeq(rows, 1,
                           (CHOOSE i \in bad : \A j \in bad : i <= j) - 1)
        reached == table \o inserted
        M_c == crosscat_metadata(generator_id)
        \* remap pairs the modelled columns with the table's columns; the
        \* modelled columns are the table's, in order
        modelled_rows == crosscat_data(generator_id, M_c, rows)
        \* computed after the rows went into the table
        T == crosscat_data(generator_id, M_c, reached)
        models == insertmany_models(bayesdb_generator_model,
                                    bayesdb_crosscat_theta, generator_id)
        thetas == [i \in 1..Len(models) |-> models[i][2]]
        ret == EngineInsert(T, <<>>, <<>>, modelled_rows)
        error == IF bad # {} THEN "TypeError"
                 ELSE IF crosscat_data_raises(generator_id, M_c, rows) THEN "KeyError"
                 ELSE IF \E i \in 1..Len(thetas) : subscript_raises(thetas[i])
                 THEN "TypeError"
                 ELSE IF engine_raises THEN "EngineError"
                 ELSE IF ret.T # crosscat_data(generator_id, M_c, reached) \o modelled_rows
                 THEN "AssertionError"
                 ELSE ""
        called == bad = {} /\ ~crosscat_data_raises(generator_id, M_c, rows)
                  /\ ~(\E i \in 1..Len(thetas) : subscript_raises(thetas[i]))
    IN  /\ frame = Idle
        /\ Len(table) + Len(rows) <= MaxRows
        /\ table' = savepoint(table, reached, error # "")
        /\ result' = Outcome("insertmany",
                              IF error = "" THEN "ok" ELSE "error", error,
                              error # "" /\ reached # table, 0)
        /\ engine' = IF called
                     THEN [fn |-> "insert", ncalls |-> 1,
                           n |-> Len(modelled_rows), kernel_list |-> <<>>,
                           T |-> T, seed |-> 0]
                     ELSE NoEngineCall
        /\ UNCHANGED <<schema_vars, generator_vars, bayesdb_generator_model,
                       bayesdb_crosscat_theta, frame>>

\* The rows a caller inserts: a row that fits, one with a categorical value
\* the code map lacks, one of a wrong length.
InsertRows ==
    {<<Text("a"), Integer(2)>>, <<Text("c"), Integer(1)>>, <<Text("b")>>}
InsertRowLists == UNION {[1..n -> InsertRows] : n \in 1..2}

InsertMany ==
    \E generator_id \in Generators, rows \in InsertRowLists,
       engine_raises \in BOOLEAN :
        insertmany(generator_id, rows, engine_raises)

Next ==
    \/ Initialize
    \/ Analyze
    \/ AnalyzeLoop
    \/ AnalyzeReturn
    \/ InsertMany

Spec == Init /\ [][Next]_vars

\* The enabling condition of AnalyzeLoop: a call stands at the head of its
\* loop and the loop condition is true.
LoopEnabled ==
    /\ frame.pc = "analyze"
    /\ loop_condition(frame.iterations, frame.max_seconds, frame.now,
                      frame.deadline)

\* analyze runs in the caller's single thread: once called, its loop goes on
\* until it returns or raises.  The weak fairness of AnalyzeLoop is written
\* with its enabling condition spelled out.
FairSpec ==
    /\ Spec
    /\ WF_vars(AnalyzeReturn)
    /\ ([]<>(~LoopEnabled) \/ []<><<AnalyzeLoop>>_vars)

(***************************************************************************)
(* Vocabulary of the properties.                                           *)
(***************************************************************************)
\* The stored theta of a model, as a document.
ThetaOf(th, key) == json_loads(th[key])

\* The models of a generator: a bayesdb_generator_model row and a theta row.
ModelsOf(gm, th, generator_id) ==
    {key \in (DOMAIN gm) \cap (DOMAIN th) : key[1] = generator_id}

\* The models the analyze call in progress targets.
Targeted ==
    IF frame.modelnos = None
    THEN ModelsOf(bayesdb_generator_model, bayesdb_crosscat_theta,
                  frame.generator_id)
    ELSE {<<frame.generator_id, frame.modelnos[1][i]>> :
            i \in 1..Len(frame.modelnos[1])}

\* A step in which a batch of the analyze call in progress completes.
BatchCompletes == frame.pc = "analyze" /\ frame'.pc = "analyze"

\* A step in which a batch of the analyze call in progress raises.
BatchRaises == frame.pc = "analyze" /\ result'.status = "error"

(***************************************************************************)
(* C1.  After a successful analyze with modelnos unset, iterations = k >= 1 *)
(* and no max_seconds, every model of the generator has its stored theta   *)
(* replaced by the X_L and X_D the engine returned for it, and its         *)
(* iteration counter (in the theta and in bayesdb_generator_model) larger  *)
(* by exactly k, when the batch completes.                                 *)
(***************************************************************************)
C1_AnalyzePersistsEveryModel ==
    [][(BatchCompletes /\ frame.modelnos = None /\ frame.max_seconds = None
            /\ frame.iterations # None)
        => LET k == frame.iterations[1]
               g == frame.generator_id
               ms == models_sql(bayesdb_generator_model,
                                bayesdb_crosscat_theta, g)
               old(i) == ThetaOf(bayesdb_crosscat_theta, <<g, ms[i]>>)
               new(i) == ThetaOf(bayesdb_crosscat_theta', <<g, ms[i]>>)
           IN  \E seed \in Seeds :
                 LET ret == EngineAnalyze([i \in 1..Len(ms) |-> old(i).X_L],
                                          [i \in 1..Len(ms) |-> old(i).X_D],
                                          k, seed)
                 IN  \A i \in 1..Len(ms) :
                       /\ new(i).X_L = ret.X_L_list[i]
                       /\ new(i).X_D = ret.X_D_list[i]
                       /\ new(i).iterations = old(i).iterations + k
                       /\ bayesdb_generator_model'[<<g, ms[i]>>] =
                              bayesdb_generator_model[<<g, ms[i]>>] + k
      ]_vars

(***************************************************************************)
(* C2.  A model's iteration counter never decreases, is 0 when the model   *)
(* is initialized, and changes only when an analyze batch completes, where *)
(* the counter of every targeted model grows by exactly the number of      *)
(* engine steps of that batch.                                             *)
(***************************************************************************)
C2_IterationCounterMonotone ==
    [][/\ \A key \in (DOMAIN bayesdb_generator_model') \ DOMAIN bayesdb_generator_model :
             bayesdb_generator_model'[key] = 0
       /\ \A key \in (DOMAIN bayesdb_crosscat_theta') \ DOMAIN bayesdb_crosscat_theta :
             ThetaOf(bayesdb_crosscat_theta', key).iterations = 0
       /\ \A key \in DOMAIN bayesdb_generator_model :
             /\ bayesdb_generator_model'[key] >= bayesdb_generator_model[key]
             /\ bayesdb_generator_model'[key] # bayesdb_generator_model[key]
                    => BatchCompletes
       /\ \A key \in DOMAIN bayesdb_crosscat_theta :
             /\ ThetaOf(bayesdb_crosscat_theta', key).iterations >=
                    ThetaOf(bayesdb_crosscat_theta, key).iterations
             /\ ThetaOf(bayesdb_crosscat_theta', key).iterations #
                    ThetaOf(bayesdb_crosscat_theta, key).iterations
                    => BatchCompletes
       /\ BatchCompletes =>
             \A key \in Targeted :
                /\ bayesdb_generator_model'[key] =
                       bayesdb_generator_model[key] + engine'.n
                /\ ThetaOf(bayesdb_crosscat_theta', key).iterations =
                       ThetaOf(bayesdb_crosscat_theta, key).iterations + engine'.n
      ]_vars

(***************************************************************************)
(* C3.  When a batch of analyze raises (the engine raises, or a statement  *)
(* of the persist loop does), the batch is rolled back: no theta and no    *)
(* iteration counter differs from the start of the batch; the error        *)
(* reaches the caller and the call ends, the batch is not run again.       *)
(***************************************************************************)
C3_FailedBatchRolledBack ==
    [][BatchRaises =>
          /\ bayesdb_crosscat_theta' = bayesdb_crosscat_theta
          /\ bayesdb_generator_model' = bayesdb_generator_model
          /\ result'.op = "analyze" /\ result'.error # ""
          /\ frame' = Idle
          /\ engine'.ncalls <= engine.ncalls + 1
      ]_vars

\* A batch raised after statements of its persist loop had written.
C3_Witness ==
    /\ result.op = "analyze" /\ result.status = "error"
    /\ result.error = "DatabaseError"
    /\ result.undone

(***************************************************************************)
(* C4 (as claimed).  A failure in any batch of an analyze call leaves      *)
(* every iteration counter and theta as they were before the call began,   *)
(* whatever the number of batches of the call that completed before it.    *)
(***************************************************************************)
C4_FailedCallRestoresPreCall ==
    [][BatchRaises =>
          /\ bayesdb_crosscat_theta' = frame.before.th
          /\ bayesdb_generator_model' = frame.before.gm
      ]_vars

(***************************************************************************)
(* C4 (amended).  A failure in a batch of an analyze call leaves every     *)
(* iteration counter and theta as they were when that batch began: as the  *)
(* batches of the call that completed before it committed them, and as     *)
(* they were before the call only when the first batch is the one to fail. *)
(***************************************************************************)
C4_FailedBatchRestoresCheckpoint ==
    [][BatchRaises =>
          /\ bayesdb_crosscat_theta' = bayesdb_crosscat_theta
          /\ bayesdb_generator_model' = bayesdb_generator_model
          /\ frame.batches = 0 =>
                /\ bayesdb_crosscat_theta' = frame.before.th
                /\ bayesdb_generator_model' = frame.before.gm
      ]_vars

\* A batch raised, and lost its writes, after another batch of the same
\* call had completed and changed a counter.
C4_Witness ==
    /\ result.op = "analyze" /\ result.status = "error"
    /\ result.batches >= 1
    /\ result.undone
    /\ \E key \in DOMAIN bayesdb_generator_model :
          bayesdb_generator_model[key] > 0

(***************************************************************************)
(* C5 (as claimed).  analyze with a finite iterations = k and no           *)
(* max_seconds, when it returns, has run exactly one batch, of k steps.    *)
(***************************************************************************)
C5_FiniteIterationsOneBatch ==
    [][(/\ frame.pc = "analyze" /\ frame.given # None
        /\ frame.max_seconds = None
        /\ frame' = Idle /\ result'.status = "ok")
        => frame.batches = 1 /\ frame.steps = frame.given[1]
      ]_vars

(***************************************************************************)
(* C5 (amended).  analyze with a finite iterations = k terminates.         *)
(* Without max_seconds it runs one batch of k steps when k >= 1 and no     *)
(* batch when k = 0 (the budget is zero at once); with max_seconds it runs *)
(* one-step batches, at most k.  At a batch boundary the loop goes on      *)
(* exactly when budget remains and the deadline has not passed; the steps  *)
(* executed never exceed k.                                                *)
(***************************************************************************)
C5_FiniteIterationsTerminate ==
    /\ [](frame.pc = "analyze" /\ frame.given # None =>
            LET k == frame.given[1]
            IN  /\ frame.steps <= k
                /\ frame.batches <= k
                /\ frame.iterations = Some(k - frame.steps)
                /\ frame.max_seconds = None =>
                      /\ frame.batches <= 1
                      /\ frame.batches = 1 => frame.steps = k
                /\ frame.max_seconds # None => frame.steps = frame.batches)
    /\ [][frame.pc = "analyze" /\ frame.given # None =>
            IF \/ frame.iterations[1] <= 0
               \/ frame.max_seconds # None /\ frame.now >= frame.deadline
            THEN /\ frame' = Idle
                 /\ result'.status = "ok"
                 /\ frame.max_seconds = None /\ frame.given[1] >= 1
                       => frame.batches = 1
                 /\ UNCHANGED <<bayesdb_generator_model, bayesdb_crosscat_theta>>
            ELSE \/ BatchRaises
                 \/ /\ BatchCompletes
                    /\ frame'.batches = frame.batches + 1
                    /\ engine'.fn = "analyze"
                    /\ engine'.n = IF frame.max_seconds = None
                                   THEN frame.given[1] ELSE 1
         ]_vars
    /\ (frame.pc = "analyze" /\ frame.given # None) ~> (frame = Idle)

\* A call with iterations = k >= 2 and max_seconds returned after k batches.
C5_Witness ==
    /\ result.op = "analyze" /\ result.status = "ok"
    /\ result.batches >= 2

(***************************************************************************)
(* C6.  analyze with iterations = None and max_seconds = None does not run *)
(* batches forever: the call is rejected, or ends.                         *)
(***************************************************************************)
C6_UnboundedAnalyzeEnds ==
    (frame.pc = "analyze" /\ frame.given = None /\ frame.max_seconds = None)
        ~> (frame = Idle)

(***************************************************************************)
(* C7.  The engine's analyze is never called with a kernel_list that is    *)
(* not the kernel_list of every model the call targets: models whose       *)
(* kernel_lists differ make analyze fail before the engine is called.      *)
(***************************************************************************)
C7_KernelListsAgree ==
    engine.fn = "analyze" =>
        \A generator_id \in Generators :
            \A key \in ModelsOf(bayesdb_generator_model,
                                bayesdb_crosscat_theta, generator_id) :
                ThetaOf(bayesdb_crosscat_theta, key).model_config.kernel_list
                    = engine.kernel_list

(***************************************************************************)
(* C8.  A batch of analyze with an explicit modelnos list whose members    *)
(* all have a stored theta trains and persists exactly the listed models   *)
(* (unless the engine or a statement of the persist loop fails), leaving   *)
(* the unlisted models as they were; when a listed model has no stored     *)
(* theta the call fails with the no-such-model ValueError, changing        *)
(* nothing.                                                                *)
(***************************************************************************)
C8_ExplicitModelnosTrained ==
    [][(/\ frame.pc = "analyze"
        /\ frame.modelnos # None
        /\ loop_condition(frame.iterations, frame.max_seconds, frame.now,
                          frame.deadline))
        => IF ~(Targeted \subseteq ModelsOf(bayesdb_generator_model,
                                   bayesdb_crosscat_theta, frame.generator_id))
           THEN /\ result'.status = "error" /\ result'.error = "ValueError"
                /\ UNCHANGED <<bayesdb_generator_model, bayesdb_crosscat_theta>>
           ELSE \/ /\ result'.status = "error"
                   /\ result'.error \in {"EngineError", "DatabaseError"}
                   /\ UNCHANGED <<bayesdb_generator_model, bayesdb_crosscat_theta>>
                \/ /\ BatchCompletes
                   /\ \A key \in DOMAIN bayesdb_crosscat_theta :
                        IF key \in Targeted
                        THEN /\ ThetaOf(bayesdb_crosscat_theta', key).iterations =
                                  ThetaOf(bayesdb_crosscat_theta, key).iterations
                                      + engine'.n
                             /\ bayesdb_generator_model'[key] =
                                  bayesdb_generator_model[key] + engine'.n
                        ELSE /\ bayesdb_crosscat_theta'[key] =
                                  bayesdb_crosscat_theta[key]
                             /\ bayesdb_generator_model'[key] =
                                  bayesdb_generator_model[key]
      ]_vars

(***************************************************************************)
(* C9.  A successful initialize(generator_id, modelnos, model_config)      *)
(* calls the engine's initialize once, with n_chains = len(modelnos) and   *)
(* the codified data matrix of the whole table, and stores exactly one     *)
(* theta row per requested model: the i-th model number gets the i-th      *)
(* (X_L, X_D) pair the engine returned, iterations 0, empty diagnostic     *)
(* lists and the given model_config (the defaults when it is None), also   *)
(* when one model is requested.  No other theta row changes.               *)
(***************************************************************************)
C9_InitializeStoresOneThetaPerModel ==
    [][\A generator_id \in Generators, modelnos \in ModelnoLists,
          model_config \in ModelConfigs :
          (/\ result'.op = "initialize" /\ result'.status = "ok"
           /\ initialize(generator_id, modelnos, model_config, FALSE))
          => LET n == Len(modelnos)
                 T == crosscat_data(generator_id, crosscat_metadata(generator_id), table)
                 ret == EngineInitialize(T, n)
                 X_L(i) == IF n = 1 THEN ret.X_L_list ELSE ret.X_L_list[i]
                 X_D(i) == IF n = 1 THEN ret.X_D_list ELSE ret.X_D_list[i]
                 keys == {<<generator_id, modelnos[i]>> : i \in 1..n}
             IN  /\ engine'.fn = "initialize" /\ engine'.ncalls = 1
                 /\ engine'.n = n
                 /\ engine'.T = T /\ Len(T) = Len(table)
                 /\ DOMAIN bayesdb_crosscat_theta' =
                        (DOMAIN bayesdb_crosscat_theta) \cup keys
                 /\ Cardinality(DOMAIN bayesdb_crosscat_theta') =
                        Cardinality(DOMAIN bayesdb_crosscat_theta) + n
                 /\ \A key \in DOMAIN bayesdb_crosscat_theta :
                        bayesdb_crosscat_theta'[key] = bayesdb_crosscat_theta[key]
                 /\ \A i \in 1..n :
                        ThetaOf(bayesdb_crosscat_theta',
                                <<generator_id, modelnos[i]>>) =
                            [X_L |-> X_L(i),
                             X_D |-> X_D(i),
                             iterations |-> 0,
                             column_crp_alpha |-> <<>>,
                             logscore |-> <<>>,
                             num_views |-> <<>>,
                             model_config |->
                                 IF model_config = None
                                 THEN [kernel_list |-> <<>>,
                                       initialization |-> "from_the_prior",
                                       row_initialization |-> "from_the_prior"]
                                 ELSE model_config[1]]
      ]_vars

\* initialize returned after it stored the theta of the one model requested.
C9_Witness ==
    /\ result.op = "initialize" /\ result.status = "ok"
    /\ engine.fn = "initialize" /\ engine.n = 1
    /\ Cardinality(DOMAIN bayesdb_crosscat_theta) = 1

(***************************************************************************)
(* C10.  initialize is atomic: when it fails, no theta row it wrote        *)
(* remains; the stored thetas are those from before the call.              *)
(***************************************************************************)
C10_InitializeAtomic ==
    [][(result'.op = "initialize" /\ result'.status = "error")
        => bayesdb_crosscat_theta' = bayesdb_crosscat_theta
      ]_vars

(***************************************************************************)
(* insertmany and the data the engine sees                                 *)
(***************************************************************************)
\* C11: the matrix T that insertmany hands to the engine's insert is the
\* codified table from before the call: it does not already hold the new
\* rows.
C11_InsertReceivesPreInsertMatrix ==
    [][\A generator_id \in Generators :
          (table' # table /\ engine'.fn = "insert")
          => engine'.T = crosscat_data(generator_id,
                                       crosscat_metadata(generator_id), table)]_vars

\* C12: an insertmany of rows of the right length whose values all codify,
\* with an engine that does not raise, on a generator that has models,
\* succeeds: the rows are in the table and every model's stored theta holds
\* the latent state extended by the rows, its other fields as they were.
C12_InsertExtendsEveryTheta ==
    [][\A generator_id \in Generators, rows \in InsertRowLists :
          LET M_c == crosscat_metadata(generator_id)
              models == ModelsOf(bayesdb_generator_model,
                                 bayesdb_crosscat_theta, generator_id)
          IN  (/\ result'.op = "insertmany"
               /\ models # {}
               /\ \A i \in 1..Len(rows) : Len(rows[i]) = NumColumns
               /\ ~crosscat_data_raises(generator_id, M_c, rows)
               /\ insertmany(generator_id, rows, FALSE))
              => /\ result'.status = "ok"
                 /\ table' = table \o rows
                 /\ \A key \in models :
                      LET old == ThetaOf(bayesdb_crosscat_theta, key)
                          new == ThetaOf(bayesdb_crosscat_theta', key)
                      IN  /\ new.X_D.rows = old.X_D.rows + Len(rows)
                          /\ new = [old EXCEPT !.X_D.rows = @ + Len(rows)]]_vars

\* C13: an insertmany of a batch in which some row's length differs from the
\* table's column count raises ValueError (the wrong-row-length error) and
\* leaves the table, the rows before the bad one included, and every theta
\* unchanged.
C13_WrongRowLengthRaisesValueError ==
    [][\A generator_id \in Generators, rows \in InsertRowLists,
          engine_raises \in BOOLEAN :
          (/\ result'.op = "insertmany"
           /\ \E i \in 1..Len(rows) : Len(rows[i]) # NumColumns
           /\ insertmany(generator_id, rows, engine_raises))
          => /\ result'.status = "error"
             /\ result'.error = "ValueError"
             /\ table' = table
             /\ bayesdb_crosscat_theta' = bayesdb_crosscat_theta]_vars

(***************************************************************************)
(* The store: register, create_generator, drop_generator, the two          *)
(* conversions and the queries that read the generator tables.             *)
(***************************************************************************)
\* What the caller of a conversion or a query sees: its arguments, and the
\* value returned or the exception raised.
Returned(op, args, value) ==
    [op |-> op, status |-> "ok", error |-> "", undone |-> FALSE,
     batches |-> 0, args |-> args, value |-> value]

Raised(op, args, error) ==
    [op |-> op, status |-> "error", error |-> error, undone |-> FALSE,
     batches |-> 0, args |-> args, value |-> Null]

\* CrosscatMetamodel.register(bdb), in its savepoint: without a marker row
\* the statements of crosscat_schema_v1 are executed, and a CREATE TABLE of
\* a table that exists raises, after the statements before it ran; a marker
\* of another version raises ValueError.
register ==
    LET version == bayesdb_metamodel
        create_raises == sqlite_master \cap crosscat_schema_v1.sqlite_master # {}
        error == IF version = None
                 THEN IF create_raises THEN "OperationalError" ELSE ""
                 ELSE IF version # Some(1) THEN "ValueError" ELSE ""
        install == version = None
    IN  /\ frame = Idle
        /\ bayesdb_metamodel' =
              IF install
              THEN savepoint(bayesdb_metamodel,
                             crosscat_schema_v1.bayesdb_metamodel, error # "")
              ELSE bayesdb_metamodel
        /\ sqlite_master' =
              IF install
              THEN savepoint(sqlite_master,
                             sqlite_master \cup crosscat_schema_v1.sqlite_master,
                             error # "")
              ELSE sqlite_master
        /\ bayesdb_crosscat_disttype' =
              IF install
              THEN savepoint(bayesdb_crosscat_disttype,
                             crosscat_schema_v1.bayesdb_crosscat_disttype,
                             error # "")
              ELSE bayesdb_crosscat_disttype
        /\ result' = Outcome("register", IF error = "" THEN "ok" ELSE "error",
                             error, install /\ error # "", 0)
        /\ engine' = NoEngineCall
        /\ UNCHANGED <<generator_vars, bayesdb_generator_model,
                       bayesdb_crosscat_theta, table, frame>>

Register == register

\* CrosscatMetamodel.create_generator(bdb, generator_id, column_list), in
\* its savepoint, called by the host for a new generator of a registered
\* metamodel once the generator's columns are recorded.
create_generator(generator_id, column_list) ==
    LET metadata == create_metadata(table, column_list)
    IN  /\ frame = Idle
        /\ bayesdb_metamodel = Some(1)
        /\ generator_id \notin DOMAIN bayesdb_generator_column
        /\ engine' = NoEngineCall
        /\ UNCHANGED <<schema_vars, bayesdb_generator_model,
                       bayesdb_crosscat_theta, table, frame>>
        /\ IF create_metadata_raises(column_list)
           THEN /\ result' = Outcome("create_generator", "error", "NameError",
                                     FALSE, 0)
                /\ UNCHANGED generator_vars
           ELSE /\ bayesdb_generator_column' =
                      [g \in (DOMAIN bayesdb_generator_column) \cup {generator_id}
                         |-> IF g = generator_id THEN column_list
                             ELSE bayesdb_generator_column[g]]
                /\ bayesdb_crosscat_metadata' =
                      [g \in (DOMAIN bayesdb_crosscat_metadata) \cup {generator_id}
                         |-> IF g = generator_id
                             THEN json_dumps(json_metadata(metadata))
                             ELSE bayesdb_crosscat_metadata[g]]
                /\ bayesdb_crosscat_column' = bayesdb_crosscat_column \cup
                      insert_column_sql(generator_id, column_list, metadata)
                /\ bayesdb_crosscat_column_codemap' =
                      bayesdb_crosscat_column_codemap \cup
                      insert_codemap_sql(generator_id, column_list, metadata)
                /\ result' = Outcome("create_generator", "ok", "", FALSE, 0)

\* The stattypes a column_list gives its columns.
StatTypes == {"categorical", "numerical", "cyclic", "ignore", "key"}

\* The column_lists the host passes: some columns of the table, ascending,
\* each with a stattype.
ColumnLists ==
    {<<Column(0, s)>> : s \in StatTypes}
    \cup {<<Column(1, s)>> : s \in StatTypes}
    \cup {<<Column(0, s0), Column(1, s1)>> : s0 \in StatTypes, s1 \in StatTypes}

CreateGenerator ==
    \E generator_id \in Generators, column_list \in ColumnLists :
        create_generator(generator_id, column_list)

\* The host's DROP GENERATOR removes the generator's own rows along with
\* the metamodel's: its bayesdb_generator_model rows ...
HostDropModels(gm, generator_id) ==
    [k \in {k \in DOMAIN gm : k[1] # generator_id} |-> gm[k]]

\* ... and its bayesdb_generator_column rows.
HostDropColumns(gc, generator_id) ==
    [g \in (DOMAIN gc) \ {generator_id} |-> gc[g]]

\* The statements of drop_generator.
NumDropStatements == 4

\* A drop_generator that deletes the column rows before the code map rows.
drop_statements_columns_first(generator_id, n) ==
    [theta |-> IF n >= 1
               THEN delete_models_sql(bayesdb_crosscat_theta, generator_id)
               ELSE bayesdb_crosscat_theta,
     column |-> IF n >= 2
                THEN delete_sql(bayesdb_crosscat_column, generator_id)
                ELSE bayesdb_crosscat_column,
     codemap |-> IF n >= 3
                 THEN delete_sql(bayesdb_crosscat_column_codemap, generator_id)
                 ELSE bayesdb_crosscat_column_codemap,
     metadata |-> IF n >= 4
                  THEN delete_metadata_sql(bayesdb_crosscat_metadata,
                                           generator_id)
                  ELSE bayesdb_crosscat_metadata]

\* The crosscat tables when the first n statements of drop_generator have
\* been executed: delete_models_sql, delete_codemap_sql, delete_column_sql,
\* delete_metadata_sql.
drop_statements(generator_id, n) ==
    [theta |-> IF n >= 1
               THEN delete_models_sql(bayesdb_crosscat_theta, generator_id)
               ELSE bayesdb_crosscat_theta,
     codemap |-> IF n >= 2
                 THEN delete_sql(bayesdb_crosscat_column_codemap, generator_id)
                 ELSE bayesdb_crosscat_column_codemap,
     column |-> IF n >= 3
                THEN delete_sql(bayesdb_crosscat_column, generator_id)
                ELSE bayesdb_crosscat_column,
     metadata |-> IF n >= 4
                  THEN delete_metadata_sql(bayesdb_crosscat_metadata,
                                           generator_id)
                  ELSE bayesdb_crosscat_metadata]

\* CrosscatMetamodel.drop_generator(bdb, generator_id), in its savepoint.
\* fail_at forces a failure: k makes the k-th statement raise, 0 none.
\* When it returns, the host deletes its own rows of the generator.
drop_generator(generator_id, fail_at) ==
    LET raised == fail_at # 0
        executed == IF raised THEN fail_at - 1 ELSE NumDropStatements
        reached == drop_statements(generator_id, executed)
        dirty == \/ reached.theta # bayesdb_crosscat_theta
                 \/ reached.codemap # bayesdb_crosscat_column_codemap
                 \/ reached.column # bayesdb_crosscat_column
                 \/ reached.metadata # bayesdb_crosscat_metadata
    IN  /\ frame = Idle
        /\ generator_id \in DOMAIN bayesdb_generator_column
        /\ bayesdb_crosscat_theta' =
              savepoint(bayesdb_crosscat_theta, reached.theta, raised)
        /\ bayesdb_crosscat_column_codemap' =
              savepoint(bayesdb_crosscat_column_codemap, reached.codemap,
                        raised)
        /\ bayesdb_crosscat_column' =
              savepoint(bayesdb_crosscat_column, reached.column, raised)
        /\ bayesdb_crosscat_metadata' =
              savepoint(bayesdb_crosscat_metadata, reached.metadata, raised)
        /\ IF raised
           THEN /\ UNCHANGED <<bayesdb_generator_model,
                               bayesdb_generator_column>>
                /\ result' = Outcome("drop_generator", "error",
                                     "DatabaseError", dirty, 0)
           ELSE /\ bayesdb_generator_model' =
                      HostDropModels(bayesdb_generator_model, generator_id)
                /\ bayesdb_generator_column' =
                      HostDropColumns(bayesdb_generator_column, generator_id)
                /\ result' = Outcome("drop_generator", "ok", "", FALSE, 0)
        /\ engine' = NoEngineCall
        /\ UNCHANGED <<schema_vars, table, frame>>

\* A DROP GENERATOR none of whose statements raises.
DropGenerator ==
    \E generator_id \in Generators : drop_generator(generator_id, 0)

\* A decoding that reads the map named code_to_value, which in this
\* metadata maps values to codes.
crosscat_code_to_value_by_name(generator_id, M_c, colno, code) ==
    LET stattype == bayesdb_generator_column_stattype(generator_id, colno)
    IN  IF stattype = "categorical"
        THEN IF code = NaN THEN Null
             ELSE LET cc_colno == crosscat_cc_colno(generator_id, colno)
                      key == Numerals[code.n + 1]
                      map == M_c.column_metadata[cc_colno].code_to_value
                  IN  IF key \in DOMAIN map THEN Integer(map[key])
                      ELSE KeyError
        ELSE IF stattype \in {"cyclic", "numerical"}
        THEN IF code = NaN THEN Null ELSE code
        ELSE KeyError

\* crosscat_code_to_value.
crosscat_code_to_value(generator_id, M_c, colno, code) ==
    LET stattype == bayesdb_generator_column_stattype(generator_id, colno)
    IN  IF stattype = "categorical"
        THEN IF code = NaN THEN Null
             ELSE LET cc_colno == crosscat_cc_colno(generator_id, colno)
                      key == Numerals[code.n + 1]
                      map == M_c.column_metadata[cc_colno].value_to_code
                  IN  IF key \in DOMAIN map THEN map[key] ELSE KeyError
        ELSE IF stattype \in {"cyclic", "numerical"}
        THEN IF code = NaN THEN Null ELSE code
        ELSE KeyError

\* Python's == between two values: numbers compare by value, whatever
\* their type; a text equals only the same text, None only None.
PyEq(a, b) ==
    IF a.t \in {"int", "float"} /\ b.t \in {"int", "float"} THEN a.n = b.n
    ELSE a.t = b.t /\ (IF a.t = "text" THEN a.s = b.s ELSE TRUE)

\* The values a caller passes for a column.
Values ==
    {Text("a"), Text("c"), Integer(2), Text("3"), Text("nan"), Null}

\* The codes a caller passes for a column.
Codes == {NaN, Float(0), Float(1), Float(2), Float(3)}

\* The columns of a generator.
ColnosOf(generator_id) ==
    {bayesdb_generator_column[generator_id][i].colno :
        i \in 1..Len(bayesdb_generator_column[generator_id])}

\* A call of crosscat_value_to_code on a column of a generator.
value_to_code(generator_id, colno, value) ==
    LET M_c == crosscat_metadata(generator_id)
        args == <<generator_id, colno, value>>
        code == crosscat_value_to_code(generator_id, M_c, colno, value)
    IN  /\ frame = Idle
        /\ generator_id \in DOMAIN bayesdb_generator_column
        /\ colno \in ColnosOf(generator_id)
        /\ result' = IF code = KeyError
                     THEN Raised("crosscat_value_to_code", args, "KeyError")
                     ELSE Returned("crosscat_value_to_code", args, code)
        /\ engine' = NoEngineCall
        /\ UNCHANGED <<schema_vars, generator_vars, bayesdb_generator_model,
                       bayesdb_crosscat_theta, table, frame>>

ValueToCode ==
    \E generator_id \in Generators, colno \in 0..(NumColumns - 1),
       value \in Values :
        value_to_code(generator_id, colno, value)

\* A call of crosscat_code_to_value on a column of a generator.
code_to_value(generator_id, colno, code) ==
    LET M_c == crosscat_metadata(generator_id)
        args == <<generator_id, colno, code>>
        value == crosscat_code_to_value(generator_id, M_c, colno, code)
    IN  /\ frame = Idle
        /\ generator_id \in DOMAIN bayesdb_generator_column
        /\ colno \in ColnosOf(generator_id)
        /\ result' = IF value = KeyError
                     THEN Raised("crosscat_code_to_value", args, "KeyError")
                     ELSE Returned("crosscat_code_to_value", args, value)
        /\ engine' = NoEngineCall
        /\ UNCHANGED <<schema_vars, generator_vars, bayesdb_generator_model,
                       bayesdb_crosscat_theta, table, frame>>

CodeToValue ==
    \E generator_id \in Generators, colno \in 0..(NumColumns - 1),
       code \in Codes :
        code_to_value(generator_id, colno, code)

\* The orders in which the SELECT of crosscat_thetas, which has no ORDER BY,
\* can return the theta rows of a generator: sqlite walks the primary key's
\* index or the table, forwards or (PRAGMA reverse_unordered_selects)
\* backwards; a sequence of the generator's model numbers.
theta_orders(generator_id) ==
    LET modelnos == {k[2] : k \in {k \in DOMAIN bayesdb_crosscat_theta :
                                       k[1] = generator_id}}
    IN  {s \in [1..Cardinality(modelnos) -> modelnos] :
            \A i, j \in 1..Cardinality(modelnos) : i # j => s[i] # s[j]}

\* crosscat_thetas: the loaded thetas of a generator, in the order the
\* SELECT returns the rows.
crosscat_thetas(generator_id, order) ==
    [i \in 1..Len(order) |->
        json_loads(bayesdb_crosscat_theta[<<generator_id, order[i]>>])]

\* What the latent state of a model says of the columns: in state 1 all
\* columns share view 0, in state 0 each column has a view of its own.
column_partition_assignments(X_L, cc_colno) ==
    IF X_L.state = 1 THEN 0 ELSE cc_colno

\* len(unique(X_D[view])): the number of row clusters of a view.
unique_row_clusters(X_D, view) == Min(X_D.rows, 2)

\* count / nmodels as a float.
Quotient(count, nmodels) == [t |-> "float", n |-> count, d |-> nmodels]

\* A counting loop that counts every model in which the two columns share
\* a view, whatever the row clusters of the view.
dependence_count_any_clusters(generator_id, colno0, colno1) ==
    LET args == <<generator_id, colno0, colno1>>
        op == "column_dependence_probability"
        cc_colno0 == crosscat_cc_colno(generator_id, colno0)
        cc_colno1 == crosscat_cc_colno(generator_id, colno1)
        thetas == crosscat_thetas(generator_id,
                     CHOOSE order \in theta_orders(generator_id) : TRUE)
        nmodels == Len(thetas)
        counted == {i \in 1..nmodels :
                      column_partition_assignments(thetas[i].X_L, cc_colno0)
                      = column_partition_assignments(thetas[i].X_L, cc_colno1)}
    IN  IF crosscat_cc_colno_raises(generator_id, colno0)
           \/ crosscat_cc_colno_raises(generator_id, colno1)
        THEN Raised(op, args, "ValueError")
        ELSE IF nmodels = 0 THEN Returned(op, args, NaN)
        ELSE Returned(op, args, Quotient(Cardinality(counted), nmodels))

\* The counting loop of column_dependence_probability and its result.
dependence_count(generator_id, colno0, colno1) ==
    LET args == <<generator_id, colno0, colno1>>
        op == "column_dependence_probability"
        cc_colno0 == crosscat_cc_colno(generator_id, colno0)
        cc_colno1 == crosscat_cc_colno(generator_id, colno1)
        \* the count does not depend on the order of the rows
        thetas == crosscat_thetas(generator_id,
                     CHOOSE order \in theta_orders(generator_id) : TRUE)
        nmodels == Len(thetas)
        counted == {i \in 1..nmodels :
                      LET a0 == column_partition_assignments(thetas[i].X_L,
                                                             cc_colno0)
                          a1 == column_partition_assignments(thetas[i].X_L,
                                                             cc_colno1)
                      IN  a0 = a1 /\ unique_row_clusters(thetas[i].X_D, a0) > 1}
    IN  IF crosscat_cc_colno_raises(generator_id, colno0)
           \/ crosscat_cc_colno_raises(generator_id, colno1)
        THEN Raised(op, args, "ValueError")
        ELSE IF nmodels = 0 THEN Returned(op, args, NaN)
        ELSE Returned(op, args, Quotient(Cardinality(counted), nmodels))

\* A column_dependence_probability that counts also when the two columns
\* are the same.
column_dependence_probability_returns_counted(generator_id, colno0, colno1) ==
    dependence_count(generator_id, colno0, colno1)

\* What column_dependence_probability returns or raises: 1 at once when the
\* two columns are the same.
column_dependence_probability_returns(generator_id, colno0, colno1) ==
    IF colno0 = colno1
    THEN Returned("column_dependence_probability",
                  <<generator_id, colno0, colno1>>, Integer(1))
    ELSE dependence_count(generator_id, colno0, colno1)

\* CrosscatMetamodel.column_dependence_probability.
column_dependence_probability(generator_id, colno0, colno1) ==
    /\ frame = Idle
    /\ generator_id \in DOMAIN bayesdb_generator_column
    /\ result' = column_dependence_probability_returns(generator_id, colno0,
                                                        colno1)
    /\ engine' = NoEngineCall
    /\ UNCHANGED <<schema_vars, generator_vars, bayesdb_generator_model,
                   bayesdb_crosscat_theta, table, frame>>

ColumnDependenceProbability ==
    \E generator_id \in Generators, colno0 \in 0..(NumColumns - 1),
       colno1 \in 0..(NumColumns - 1) :
        column_dependence_probability(generator_id, colno0, colno1)

\* math.exp(r) of the engine's answer r.
Probability == [t |-> "float", n |-> 0, d |-> 0]

\* CrosscatMetamodel.column_value_probability.
column_value_probability(generator_id, colno, value) ==
    LET args == <<generator_id, colno, value>>
        op == "column_value_probability"
        M_c == crosscat_metadata(generator_id)
        code == crosscat_value_to_code(generator_id, M_c, colno, value)
        cc_colno == crosscat_cc_colno(generator_id, colno)
    IN  /\ frame = Idle
        /\ generator_id \in DOMAIN bayesdb_generator_column
        /\ colno \in ColnosOf(generator_id)
        /\ \E order \in theta_orders(generator_id) :
             LET thetas == crosscat_thetas(generator_id, order)
                 fake_row_id == thetas[1].X_D.rows
             IN  IF code = KeyError
                 THEN /\ result' = Returned(op, args, Integer(0))
                      /\ engine' = NoEngineCall
                 ELSE IF Len(thetas) = 0
                 THEN /\ result' = Raised(op, args, "IndexError")
                      /\ engine' = NoEngineCall
                 ELSE /\ result' = Returned(op, args, Probability)
                      /\ engine' =
                           [fn |-> "simple_predictive_probability_multistate",
                            ncalls |-> 1, n |-> Len(thetas),
                            kernel_list |-> <<>>, T |-> <<>>, seed |-> 0,
                            X_L_list |-> order, X_D_list |-> order,
                            Y |-> <<>>,
                            Q |-> << <<fake_row_id, cc_colno, code>> >>]
        /\ UNCHANGED <<schema_vars, generator_vars, bayesdb_generator_model,
                       bayesdb_crosscat_theta, table, frame>>

ColumnValueProbability ==
    \E generator_id \in Generators, colno \in 0..(NumColumns - 1),
       value \in Values :
        column_value_probability(generator_id, colno, value)

\* The tables of the stores: the table of Spec, one whose first column
\* mixes numbers and texts and whose second holds texts, one with a single
\* row and no categorical value, and an empty one.
StoreTables ==
    {InitialRows,
     << <<Text("b"), Text("3")>>, <<Integer(2), Text("nan")>>,
        <<Text("a"), Integer(1)>> >>,
     << <<Null, Text("x")>> >>,
     <<>>}

\* A store before register: without the marker (fresh, or with a table
\* left behind), or with the marker of another schema version.
StoreInit ==
    /\ \/ /\ bayesdb_metamodel = None
          /\ sqlite_master \in {{}, {"bayesdb_crosscat_theta"}}
       \/ /\ bayesdb_metamodel = Some(2)
          /\ sqlite_master = crosscat_schema_v1.sqlite_master
    /\ bayesdb_crosscat_disttype = {}
    /\ bayesdb_generator_column = [g \in {} |-> <<>>]
    /\ bayesdb_generator_model = [k \in {} |-> 0]
    /\ bayesdb_crosscat_theta = [k \in {} |-> json_dumps(0)]
    /\ bayesdb_crosscat_metadata = [g \in {} |-> json_dumps(0)]
    /\ bayesdb_crosscat_column = {}
    /\ bayesdb_crosscat_column_codemap = {}
    /\ table \in StoreTables
    /\ frame = Idle
    /\ result = Outcome("open", "ok", "", FALSE, 0)
    /\ engine = NoEngineCall

\* INITIALIZE 1 MODEL and INITIALIZE 2 MODELS, with the default
\* model_config and an engine that does not raise.
StoreInitialize ==
    \E generator_id \in Generators, modelnos \in {<<0>>, <<0, 1>>} :
        initialize(generator_id, modelnos, None, FALSE)

StoreNext ==
    \/ Register
    \/ CreateGenerator
    \/ DropGenerator
    \/ StoreInitialize
    \/ ValueToCode
    \/ CodeToValue
    \/ ColumnValueProbability
    \/ ColumnDependenceProbability

StoreSpec == StoreInit /\ [][StoreNext]_vars

(***************************************************************************)
(* The generator tables                                                    *)
(***************************************************************************)
\* C14: the bayesdb_crosscat_column rows of a generator are a dense
\* bijection, in column order, between the cc_colnos 0..k-1 and exactly the
\* generator's modelled (categorical, numerical, cyclic) columns: an ignore
\* or key column has no row; colno and cc_colno are each unique in a
\* generator.
C14_CcColnoBijectionOverModelled ==
    \A generator_id \in DOMAIN bayesdb_generator_column :
        LET columns == bayesdb_generator_column[generator_id]
            modelled == {columns[i].colno : i \in
                           {i \in 1..Len(columns) : columns[i].stattype \in
                               {"categorical", "numerical", "cyclic"}}}
            rows == {r \in bayesdb_crosscat_column :
                        r.generator_id = generator_id}
        IN  /\ {r.colno : r \in rows} = modelled
            /\ {r.cc_colno : r \in rows} = 0..(Cardinality(modelled) - 1)
            /\ \A r1, r2 \in rows :
                 /\ (r1.colno = r2.colno \/ r1.cc_colno = r2.cc_colno)
                    => r1 = r2
                 /\ r1.colno < r2.colno => r1.cc_colno < r2.cc_colno

\* The distinct non-null values of a column of the table.
DistinctValues(rows, colno) ==
    {rows[i][colno + 1] : i \in 1..Len(rows)} \ {Null}

\* C15: a successful create_generator gives every categorical column a code
\* map over the codes 0..n-1 and the n distinct non-null values the table
\* holds at that time, ascending; the two maps of the blob are inverses of
\* each other and the code map rows hold the pairs of the blob; a numerical
\* or cyclic column gets empty maps and no code map row.
C15_CodeMapBuiltFromTable ==
    [][\A generator_id \in Generators, column_list \in ColumnLists :
          (/\ result'.op = "create_generator" /\ result'.status = "ok"
           /\ create_generator(generator_id, column_list))
          => \A i \in 1..Len(column_list) :
               LET M == json_loads(bayesdb_crosscat_metadata'[generator_id])
                            .column_metadata[i - 1]
                   rows == {r \in bayesdb_crosscat_column_codemap' :
                              r.generator_id = generator_id
                              /\ r.cc_colno = i - 1}
                   values == DistinctValues(table, column_list[i].colno)
                   n == Cardinality(values)
                   key(c) == Numerals[c + 1]
               IN  /\ column_list[i].stattype = "categorical" =>
                        /\ DOMAIN M.value_to_code = {key(c) : c \in 0..(n - 1)}
                        /\ {M.value_to_code[k] : k \in DOMAIN M.value_to_code}
                              = values
                        /\ \A c1, c2 \in 0..(n - 1) :
                              c1 < c2 => SqlLess(M.value_to_code[key(c1)],
                                                 M.value_to_code[key(c2)])
                        /\ DOMAIN M.code_to_value = {unicode(v) : v \in values}
                        /\ \A c \in 0..(n - 1) :
                              M.code_to_value[unicode(M.value_to_code[key(c)])]
                                 = c
                        /\ \A k \in DOMAIN M.code_to_value :
                              unicode(M.value_to_code[key(M.code_to_value[k])])
                                 = k
                        /\ {<<r.code, r.value.s>> : r \in rows} =
                              {<<c, unicode(M.value_to_code[key(c)])>> :
                                  c \in 0..(n - 1)}
                        /\ Cardinality(rows) = n
                   /\ column_list[i].stattype \in {"numerical", "cyclic"} =>
                        /\ DOMAIN M.value_to_code = {}
                        /\ DOMAIN M.code_to_value = {}
                        /\ rows = {}]_vars

\* A generator was just created with a categorical column of three values,
\* a number among them, and a numerical column.
C15_Witness ==
    /\ result.op = "create_generator" /\ result.status = "ok"
    /\ \E generator_id \in DOMAIN bayesdb_generator_column :
         LET columns == bayesdb_generator_column[generator_id]
         IN  /\ Len(columns) = 2
             /\ columns[1].stattype = "categorical"
             /\ columns[2].stattype = "numerical"
             /\ \E r \in bayesdb_crosscat_column_codemap :
                   r.cc_colno = 0 /\ r.code = 2
             /\ \E r \in bayesdb_crosscat_column_codemap :
                   r.cc_colno = 0 /\ r.code = 0 /\ r.value = Text("2")

\* The operations on a created generator: those of Spec and the queries.
QueryNext ==
    \/ Initialize
    \/ Analyze
    \/ AnalyzeLoop
    \/ AnalyzeReturn
    \/ InsertMany
    \/ ColumnValueProbability
    \/ ColumnDependenceProbability

QuerySpec == Init /\ [][QueryNext]_vars

\* C16: no initialize, analyze, insertmany or query changes a generator's
\* metadata blob, column rows or code map rows; an insertmany of rows of the
\* right length, one of which carries a categorical value the code map
\* lacks, raises KeyError and leaves the table and every theta and
\* iteration counter as they were.
C16_MetadataImmutableAfterCreate ==
    [][/\ bayesdb_crosscat_metadata' = bayesdb_crosscat_metadata
       /\ bayesdb_crosscat_column' = bayesdb_crosscat_column
       /\ bayesdb_crosscat_column_codemap' = bayesdb_crosscat_column_codemap
       /\ \A generator_id \in Generators, rows \in InsertRowLists,
             engine_raises \in BOOLEAN :
             (/\ result'.op = "insertmany"
              /\ \A i \in 1..Len(rows) : Len(rows[i]) = NumColumns
              /\ \E i \in 1..Len(rows) :
                   crosscat_value_to_code(generator_id,
                       crosscat_metadata(generator_id), 0, rows[i][1])
                     = KeyError
              /\ insertmany(generator_id, rows, engine_raises))
             => /\ result'.status = "error" /\ result'.error = "KeyError"
                /\ table' = table
                /\ bayesdb_crosscat_theta' = bayesdb_crosscat_theta
                /\ bayesdb_generator_model' = bayesdb_generator_model]_vars

\* An insertmany on a generator with a model has just failed at
\* codification, after its rows had gone into the table.
C16_Witness ==
    /\ result.op = "insertmany" /\ result.error = "KeyError"
    /\ result.undone
    /\ DOMAIN bayesdb_crosscat_theta # {}
    /\ Len(table) = Len(InitialRows)

(***************************************************************************)
(* The conversions                                                         *)
(***************************************************************************)
\* A non-null value that the code map of a categorical column lacks.
Unseen(generator_id, colno, value) ==
    /\ generator_id \in DOMAIN bayesdb_generator_column
    /\ colno \in ColnosOf(generator_id)
    /\ bayesdb_generator_column_stattype(generator_id, colno) = "categorical"
    /\ value # Null
    /\ unicode(value) \notin
          DOMAIN crosscat_metadata(generator_id)
                    .column_metadata[crosscat_cc_colno(generator_id, colno)]
                    .code_to_value

\* C17: on a categorical column, crosscat_value_to_code of a non-null value
\* absent from the column's code map raises KeyError, while
\* column_value_probability of the same value returns 0, calls no engine
\* function and does not raise.
C17_UnseenValueRaisesButProbabilityZero ==
    [][\A generator_id \in Generators, colno \in 0..(NumColumns - 1),
          value \in Values :
          (/\ result'.op \in {"crosscat_value_to_code",
                              "column_value_probability"}
           /\ Unseen(generator_id, colno, value))
          => /\ value_to_code(generator_id, colno, value)
                => /\ result'.status = "error"
                   /\ result'.error = "KeyError"
             /\ column_value_probability(generator_id, colno, value)
                => /\ result'.status = "ok"
                   /\ result'.value = Integer(0)
                   /\ engine'.fn = "none" /\ engine'.ncalls = 0]_vars

\* column_value_probability has just answered 0 for a value the code map of
\* a categorical column lacks, on a generator that has a model.
C17_Witness ==
    /\ result.op = "column_value_probability"
    /\ result.status = "ok"
    /\ Unseen(result.args[1], result.args[2], result.args[3])
    /\ \E key \in DOMAIN bayesdb_crosscat_theta : key[1] = result.args[1]

\* A text that spells a number.
Parseable(value) ==
    \/ value.t = "int"
    \/ value.t = "text" /\ IndexOf(Numerals, value.s, 1) > 0

\* A value the column can represent: one of its code map on a categorical
\* column, one parseable as a number on a numerical or cyclic column.
Representable(generator_id, colno, value) ==
    LET stattype == bayesdb_generator_column_stattype(generator_id, colno)
    IN  IF stattype = "categorical"
        THEN value # Null /\ ~Unseen(generator_id, colno, value)
        ELSE stattype \in {"numerical", "cyclic"} /\ Parseable(value)

\* C18: crosscat_code_to_value applied to the code crosscat_value_to_code
\* gave for a value of the same column returns a value equal to it, when
\* the value is representable, and None when the value is None.
C18_RoundTrip ==
    [][(/\ result.op = "crosscat_value_to_code" /\ result.status = "ok"
        /\ result'.op = "crosscat_code_to_value"
        /\ result'.args = <<result.args[1], result.args[2], result.value>>
        /\ bayesdb_generator_column_stattype(result.args[1], result.args[2])
             \in {"categorical", "numerical", "cyclic"}
        /\ \/ result.args[3] = Null
           \/ Representable(result.args[1], result.args[2], result.args[3]))
       => /\ result'.status = "ok"
          /\ PyEq(result'.value, result.args[3])]_vars

\* C18 (amended): the round trip returns an equal value for a value of the
\* column's code map (categorical) and for a number (numerical, cyclic),
\* and None for None; a text that spells a number comes back as that
\* number, not as the text, and the text nan as None.
C18_RoundTripOnStoredValues ==
    [][\A generator_id \in Generators, colno \in 0..(NumColumns - 1),
          value \in Values :
          (/\ result.op = "crosscat_value_to_code" /\ result.status = "ok"
           /\ result'.op = "crosscat_code_to_value"
           /\ result.args = <<generator_id, colno, value>>
           /\ result'.args = <<generator_id, colno, result.value>>)
          => LET stattype == bayesdb_generator_column_stattype(generator_id,
                                                               colno)
             IN  /\ result'.status = "ok"
                 /\ value = Null => result'.value = Null
                 /\ (stattype = "categorical" /\ value # Null)
                    => PyEq(result'.value, value)
                 /\ (stattype \in {"numerical", "cyclic"} /\ value.t = "int")
                    => PyEq(result'.value, value)
                 /\ (stattype \in {"numerical", "cyclic"} /\ value.t = "text")
                    => IF IndexOf(Numerals, value.s, 1) > 0
                       THEN result'.value =
                               Float(IndexOf(Numerals, value.s, 1) - 1)
                       ELSE result'.value = Null]_vars

\* crosscat_code_to_value has just returned the number 2 that a categorical
\* column's code map holds for a code.
C18_Witness ==
    /\ result.op = "crosscat_code_to_value" /\ result.status = "ok"
    /\ result.value = Integer(2)
    /\ bayesdb_generator_column_stattype(result.args[1], result.args[2])
          = "categorical"

(***************************************************************************)
(* register                                                                *)
(***************************************************************************)
\* The schema of crosscat_schema_v1 is in the store.
Installed ==
    /\ bayesdb_metamodel = crosscat_schema_v1.bayesdb_metamodel
    /\ crosscat_schema_v1.sqlite_master \subseteq sqlite_master
    /\ bayesdb_crosscat_disttype = crosscat_schema_v1.bayesdb_crosscat_disttype

\* C19: register on a store without the marker installs the marker with
\* version 1, the disttype catalogue and the four tables, all or (when a
\* statement fails) nothing; on a store with the marker of version 1 it
\* succeeds and changes nothing; on a store with a marker of another
\* version it raises ValueError and changes nothing.  It never touches a
\* generator's rows.
C19_RegisterIdempotent ==
    [][(result'.op = "register" /\ register)
       => /\ (bayesdb_metamodel = None
              /\ sqlite_master \cap crosscat_schema_v1.sqlite_master = {})
             => (result'.status = "ok" /\ Installed')
          /\ bayesdb_metamodel = None
             => \/ result'.status = "ok" /\ Installed'
                \/ result'.status = "error" /\ schema_vars' = schema_vars
          /\ bayesdb_metamodel = Some(1)
             => (result'.status = "ok" /\ schema_vars' = schema_vars)
          /\ bayesdb_metamodel \notin {None, Some(1)}
             => /\ result'.status = "error" /\ result'.error = "ValueError"
                /\ schema_vars' = schema_vars
          /\ generator_vars' = generator_vars
          /\ bayesdb_crosscat_theta' = bayesdb_crosscat_theta
          /\ table' = table]_vars

\* register has just succeeded on a store that already holds a generator,
\* so on a store it had been called on before.
C19_Witness ==
    /\ result.op = "register" /\ result.status = "ok"
    /\ Installed
    /\ bayesdb_crosscat_column # {}

(***************************************************************************)
(* column_dependence_probability                                           *)
(***************************************************************************)
\* The generator has no stored model.
NoModels(generator_id) ==
    \A key \in DOMAIN bayesdb_crosscat_theta : key[1] # generator_id

\* C20: on a generator with zero stored models column_dependence_probability
\* returns NaN for every pair of columns.
C20_NoModelsGivesNaN ==
    [][\A generator_id \in Generators,
          colno0 \in 0..(NumColumns - 1), colno1 \in 0..(NumColumns - 1) :
          (/\ result'.op = "column_dependence_probability"
           /\ NoModels(generator_id)
           /\ {colno0, colno1} \subseteq ColnosOf(generator_id)
           /\ column_dependence_probability(generator_id, colno0, colno1))
          => result'.status = "ok" /\ result'.value = NaN]_vars

\* C20 (amended): on a generator with zero stored models
\* column_dependence_probability returns NaN for two different columns of
\* the generator and 1 when the two columns are the same; with models, too,
\* it returns 1 when the two columns are the same.
C20_NoModelsGivesNaNForDistinctColumns ==
    [][\A generator_id \in Generators,
          colno0 \in 0..(NumColumns - 1), colno1 \in 0..(NumColumns - 1) :
          (/\ result'.op = "column_dependence_probability"
           /\ {colno0, colno1} \subseteq ColnosOf(generator_id)
           /\ column_dependence_probability(generator_id, colno0, colno1))
          => /\ result'.status = "ok"
             /\ colno0 = colno1 => result'.value = Integer(1)
             /\ (colno0 # colno1 /\ NoModels(generator_id))
                => result'.value = NaN]_vars

\* column_dependence_probability has just returned NaN for two different
\* columns of a generator without models.
C20_Witness ==
    /\ result.op = "column_dependence_probability"
    /\ result.status = "ok" /\ result.value = NaN
    /\ result.args[2] # result.args[3]
    /\ NoModels(result.args[1])

(***************************************************************************)
(* The query translator                                                    *)
(***************************************************************************)
\* crosscat_row_id: the engine's row id of a table row.
crosscat_row_id(rowid) == rowid - 1

\* What a Python function returns that ends without a return statement
\* (None), where a column number is expected: no column has this number.
NoColno == 0 - 1

\* crosscat_gen_colno raises (NameError: its handler reads colno, which is
\* not bound) when the generator has no row for cc_colno.
crosscat_gen_colno_raises(generator_id, cc_colno) ==
    ~\E r \in bayesdb_crosscat_column :
        r.generator_id = generator_id /\ r.cc_colno = cc_colno

\* crosscat_gen_colno: the else branch of its try statement asserts on the
\* row and ends; nothing is returned.
crosscat_gen_colno(generator_id, cc_colno) == NoColno

\* The row ids callers pass: of the first and second row and of a row no
\* table has.
RowIds == {1, 2, MaxRows + 1}

\* SELECT <the generator's columns> FROM <table> WHERE _rowid_ = rowid.
select_sql(generator_id, rowid) ==
    LET columns == bayesdb_generator_column[generator_id]
    IN  IF rowid \in 1..Len(table)
        THEN << [j \in 1..Len(columns) |-> table[rowid][columns[j].colno + 1]] >>
        ELSE <<>>

\* The indices, ascending, of the entries of a row that are not None.
NotNone(row) == SelectSeq([j \in 1..Len(row) |-> j], LAMBDA j : row[j] # Null)

\* The Y of infer: one constraint for every entry of the row that is not
\* None, the entries enumerated from 0.
infer_Y(generator_id, M_c, row_id, row) ==
    LET idx == NotNone(row)
    IN  [k \in 1..Len(idx) |->
            LET cc_colno_ == idx[k] - 1
                value == row[idx[k]]
            IN  <<row_id, crosscat_gen_colno(generator_id, cc_colno_),
                  crosscat_value_to_code(generator_id, M_c,
                      crosscat_gen_colno(generator_id, cc_colno_), value)>>]

\* The exception the comprehension of Y ends with, if any.
infer_Y_raises(generator_id, Y, row) ==
    IF \E k \in 1..Len(Y) :
          crosscat_gen_colno_raises(generator_id, NotNone(row)[k] - 1)
    THEN "NameError"
    ELSE IF \E k \in 1..Len(Y) : Y[k][3] = KeyError THEN "KeyError"
    ELSE ""

\* The part of infer after `if value is not None: return value`.
\* answer is what the engine's impute_and_confidence gives: a code and a
\* confidence, or an exception.
infer_imputes(generator_id, colno, rowid, threshold, order, answer) ==
    LET args == <<generator_id, colno, rowid, Null, threshold>>
        op == "infer"
        M_c == crosscat_metadata(generator_id)
        cursor == select_sql(generator_id, rowid)
        row == cursor[1]
        row_id == crosscat_row_id(rowid)
        cc_colno == crosscat_cc_colno(generator_id, colno)
        Y == infer_Y(generator_id, M_c, row_id, row)
        out(r, e) == [result |-> r, engine |-> e]
    IN  IF Len(cursor) = 0
        \* '... %d: %d' % (repr(table_name), repr(generator), repr(rowid))
        THEN out(Raised(op, args, "TypeError"), NoEngineCall)
        ELSE IF crosscat_cc_colno_raises(generator_id, colno)
        THEN out(Raised(op, args, "ValueError"), NoEngineCall)
        ELSE IF infer_Y_raises(generator_id, Y, row) # ""
        THEN out(Raised(op, args, infer_Y_raises(generator_id, Y, row)),
                 NoEngineCall)
        ELSE LET call == [fn |-> "impute_and_confidence", ncalls |-> 1,
                          n |-> 1, kernel_list |-> <<>>, T |-> <<>>,
                          seed |-> 0, X_L |-> order, X_D |-> order, Y |-> Y,
                          Q |-> << <<row_id, cc_colno>> >>]
                 value == crosscat_code_to_value(generator_id, M_c, colno,
                                                 answer.code)
             IN  IF answer.raises
                 THEN out(Raised(op, args, "EngineError"), call)
                 ELSE IF answer.confidence >= threshold
                 THEN IF value = KeyError
                      THEN out(Raised(op, args, "KeyError"), call)
                      ELSE out(Returned(op, args, value), call)
                 ELSE out(Returned(op, args, Null), call)

\* An infer that imputes whatever value it is given.
infer_returns_imputed(generator_id, colno, rowid, value, threshold, order, answer) ==
    infer_imputes(generator_id, colno, rowid, threshold, order, answer)

\* What infer returns or raises, and its engine call.
infer_returns(generator_id, colno, rowid, value, threshold, order, answer) ==
    IF value # Null
    THEN [result |-> Returned("infer",
                         <<generator_id, colno, rowid, value, threshold>>,
                         value),
          engine |-> NoEngineCall]
    ELSE infer_imputes(generator_id, colno, rowid, threshold, order, answer)

\* CrosscatMetamodel.infer(bdb, generator_id, colno, rowid, value,
\* threshold), numsamples left at 1.
infer(generator_id, colno, rowid, value, threshold, answer) ==
    /\ frame = Idle
    /\ generator_id \in DOMAIN bayesdb_generator_column
    /\ \E order \in theta_orders(generator_id) :
         LET out == infer_returns(generator_id, colno, rowid, value,
                                  threshold, order, answer)
         IN  /\ result' = out.result
             /\ engine' = out.engine
    /\ UNCHANGED <<schema_vars, generator_vars, bayesdb_generator_model,
                   bayesdb_crosscat_theta, table, frame>>

\* The confidences the engine reports and the thresholds callers pass
\* (0 for 0.0, 1 for 1.0).
Confidences == {0, 1}

\* What impute_and_confidence gives.
ImputeAnswers ==
    {[raises |-> FALSE, code |-> Float(0), confidence |-> p] :
        p \in Confidences}
    \cup {[raises |-> FALSE, code |-> NaN, confidence |-> 1],
          [raises |-> TRUE, code |-> NaN, confidence |-> 0]}

Infer ==
    \E generator_id \in Generators, colno \in 0..(NumColumns - 1),
       rowid \in RowIds, value \in {Null, Text("a")},
       threshold \in Confidences, answer \in ImputeAnswers :
        infer(generator_id, colno, rowid, value, threshold, answer)

\* What the engine answers where the answer is handed on as it is.
EngineValue == [t |-> "engine"]

\* The engine call of a query: the function, the thetas in the order of
\* their retrieval (every list by a retrieval of its own), and the
\* keyword arguments.
EngineQuery(fn, keywords) ==
    [fn |-> fn, ncalls |-> 1, n |-> 1, kernel_list |-> <<>>, T |-> <<>>,
     seed |-> 0] @@ keywords

\* int(math.ceil(float(numsamples) / nmodels)), nmodels not 0.
n_samples(numsamples, nmodels) == (numsamples + nmodels - 1) \div nmodels

\* The sum of a list of numbers.
RECURSIVE float_sum(_)
float_sum(array) ==
    IF array = <<>> THEN 0 ELSE Head(array) + float_sum(Tail(array))

\* util.arithmetic_mean.
arithmetic_mean(array) == Quotient(float_sum(array), Len(array))

\* The numsamples of column_mutual_information when none is given.
DefaultNumSamples == 100

\* CrosscatMetamodel.column_mutual_information. mi is the engine's list of
\* estimates, one per model.
column_mutual_information_returns(generator_id, colno0, colno1, numsamples, order, mi, engine_raises) ==
    LET args == <<generator_id, colno0, colno1, numsamples>>
        op == "column_mutual_information"
        numsamples_ == IF numsamples = None THEN DefaultNumSamples
                       ELSE numsamples[1]
        out(r, e) == [result |-> r, engine |-> e]
        call == EngineQuery("mutual_information",
                    [X_L_list |-> order, X_D_list |-> order,
                     Q |-> << <<colno0, colno1>> >>,
                     n_samples |-> n_samples(numsamples_, Len(order))])
    IN  IF Len(order) = 0
        THEN out(Raised(op, args, "ZeroDivisionError"), NoEngineCall)
        ELSE IF engine_raises
        THEN out(Raised(op, args, "EngineError"), call)
        ELSE out(Returned(op, args, arithmetic_mean(mi)), call)

column_mutual_information(generator_id, colno0, colno1, numsamples, engine_raises) ==
    /\ frame = Idle
    /\ generator_id \in DOMAIN bayesdb_generator_column
    /\ \E order \in theta_orders(generator_id) :
       \E mi \in [1..Len(order) -> {0, 1}] :
         LET out == column_mutual_information_returns(generator_id, colno0,
                        colno1, numsamples, order, mi, engine_raises)
         IN  /\ result' = out.result
             /\ engine' = out.engine
    /\ UNCHANGED <<schema_vars, generator_vars, bayesdb_generator_model,
                   bayesdb_crosscat_theta, table, frame>>

ColumnMutualInformation ==
    \E generator_id \in Generators, colno0 \in 0..(NumColumns - 1),
       colno1 \in 0..(NumColumns - 1), numsamples \in {None, Some(1), Some(3)},
       engine_raises \in BOOLEAN :
        column_mutual_information(generator_id, colno0, colno1, numsamples,
                                  engine_raises)

\* CrosscatMetamodel.column_typicality.
column_typicality(generator_id, colno, engine_raises) ==
    LET args == <<generator_id, colno>>
        op == "column_typicality"
    IN  /\ frame = Idle
        /\ generator_id \in DOMAIN bayesdb_generator_column
        /\ \E order \in theta_orders(generator_id) :
             IF crosscat_cc_colno_raises(generator_id, colno)
             THEN /\ result' = Raised(op, args, "ValueError")
                  /\ engine' = NoEngineCall
             ELSE /\ result' = IF engine_raises
                               THEN Raised(op, args, "EngineError")
                               ELSE Returned(op, args, EngineValue)
                  /\ engine' = EngineQuery("column_structural_typicality",
                        [X_L_list |-> order,
                         col_id |-> crosscat_cc_colno(generator_id, colno)])
        /\ UNCHANGED <<schema_vars, generator_vars, bayesdb_generator_model,
                       bayesdb_crosscat_theta, table, frame>>

ColumnTypicality ==
    \E generator_id \in Generators, colno \in 0..(NumColumns - 1),
       engine_raises \in BOOLEAN :
        column_typicality(generator_id, colno, engine_raises)

\* The lists of columns callers pass.
ColnoLists == {<<>>, <<1>>, <<0, 1>>}

\* CrosscatMetamodel.row_similarity.
row_similarity(generator_id, rowid, target_rowid, colnos, engine_raises) ==
    LET args == <<generator_id, rowid, target_rowid, colnos>>
        op == "row_similarity"
    IN  /\ frame = Idle
        /\ generator_id \in DOMAIN bayesdb_generator_column
        /\ \E order \in theta_orders(generator_id) :
             IF \E i \in 1..Len(colnos) :
                   crosscat_cc_colno_raises(generator_id, colnos[i])
             THEN /\ result' = Raised(op, args, "ValueError")
                  /\ engine' = NoEngineCall
             ELSE /\ result' = IF engine_raises
                               THEN Raised(op, args, "EngineError")
                               ELSE Returned(op, args, EngineValue)
                  /\ engine' = EngineQuery("similarity",
                        [X_L_list |-> order, X_D_list |-> order,
                         given_row_id |-> crosscat_row_id(rowid),
                         target_row_id |-> crosscat_row_id(target_rowid),
                         target_columns |->
                            [i \in 1..Len(colnos) |->
                                crosscat_cc_colno(generator_id, colnos[i])]])
        /\ UNCHANGED <<schema_vars, generator_vars, bayesdb_generator_model,
                       bayesdb_crosscat_theta, table, frame>>

RowSimilarity ==
    \E generator_id \in Generators, rowid \in RowIds,
       target_rowid \in {1, MaxRows + 1}, colnos \in ColnoLists, engine_raises \in BOOLEAN :
        row_similarity(generator_id, rowid, target_rowid, colnos,
                       engine_raises)

\* CrosscatMetamodel.row_typicality.
row_typicality(generator_id, rowid, engine_raises) ==
    LET args == <<generator_id, rowid>>
        op == "row_typicality"
    IN  /\ frame = Idle
        /\ generator_id \in DOMAIN bayesdb_generator_column
        /\ \E order \in theta_orders(generator_id) :
             /\ result' = IF engine_raises
                          THEN Raised(op, args, "EngineError")
                          ELSE Returned(op, args, EngineValue)
             /\ engine' = EngineQuery("row_structural_typicality",
                   [X_L_list |-> order, X_D_list |-> order,
                    row_id |-> crosscat_row_id(rowid)])
        /\ UNCHANGED <<schema_vars, generator_vars, bayesdb_generator_model,
                       bayesdb_crosscat_theta, table, frame>>

RowTypicality ==
    \E generator_id \in Generators, rowid \in RowIds,
       engine_raises \in BOOLEAN :
        row_typicality(generator_id, rowid, engine_raises)

\* CrosscatMetamodel.row_column_predictive_probability, of a column of the
\* generator.
row_column_predictive_probability(generator_id, rowid, colno, engine_raises) ==
    LET args == <<generator_id, rowid, colno>>
        op == "row_column_predictive_probability"
        M_c == crosscat_metadata(generator_id)
        value == table[rowid][colno + 1]
        code == crosscat_value_to_code(generator_id, M_c, colno, value)
        cc_colno == crosscat_cc_colno(generator_id, colno)
    IN  /\ frame = Idle
        /\ generator_id \in DOMAIN bayesdb_generator_column
        /\ colno \in ColnosOf(generator_id)
        /\ \E order \in theta_orders(generator_id) :
             IF rowid \notin 1..Len(table)
             THEN /\ result' = Raised(op, args, "ValueError")
                  /\ engine' = NoEngineCall
             ELSE IF code = KeyError
             THEN /\ result' = Raised(op, args, "KeyError")
                  /\ engine' = NoEngineCall
             ELSE /\ result' = IF engine_raises
                               THEN Raised(op, args, "EngineError")
                               ELSE Returned(op, args, Probability)
                  /\ engine' = EngineQuery(
                        "simple_predictive_probability_multistate",
                        [X_L_list |-> order, X_D_list |-> order, Y |-> <<>>,
                         Q |-> << <<crosscat_row_id(rowid), cc_colno, code>> >>])
        /\ UNCHANGED <<schema_vars, generator_vars, bayesdb_generator_model,
                       bayesdb_crosscat_theta, table, frame>>

RowColumnPredictiveProbability ==
    \E generator_id \in Generators, rowid \in RowIds,
       colno \in 0..(NumColumns - 1), engine_raises \in BOOLEAN :
        row_column_predictive_probability(generator_id, rowid, colno,
                                          engine_raises)

\* The Y of simulate: None without constraints, else one entry per
\* constraint.
simulate_Y(generator_id, M_c, fake_row_id, constraints) ==
    IF constraints = None THEN None
    ELSE Some([k \in 1..Len(constraints[1]) |->
                 LET colno == constraints[1][k][1]
                     value == constraints[1][k][2]
                 IN  <<fake_row_id, colno,
                       crosscat_value_to_code(generator_id, M_c, colno,
                                              value)>>])

\* CrosscatMetamodel.simulate, numpredictions left at 1. code is the code
\* the engine samples for every column asked for.
simulate_returns(generator_id, constraints, colnos, order, code, engine_raises) ==
    LET args == <<generator_id, constraints, colnos>>
        op == "simulate"
        M_c == crosscat_metadata(generator_id)
        max_rowid == Len(table)
        fake_rowid == max_rowid + 1
        fake_row_id == crosscat_row_id(fake_rowid)
        Y == simulate_Y(generator_id, M_c, fake_row_id, constraints)
        call == EngineQuery("simple_predictive_sample",
                    [X_L |-> order, X_D |-> order, Y |-> Y,
                     Q |-> [i \in 1..Len(colnos) |->
                              <<fake_row_id,
                                crosscat_cc_colno(generator_id, colnos[i])>>]])
        values == [i \in 1..Len(colnos) |->
                     crosscat_code_to_value(generator_id, M_c, colnos[i],
                                            code)]
        out(r, e) == [result |-> r, engine |-> e]
    IN  \* MAX(_rowid_) of an empty table is NULL: None + 1
        IF Len(table) = 0
        THEN out(Raised(op, args, "TypeError"), NoEngineCall)
        ELSE IF Y # None /\ \E k \in 1..Len(Y[1]) : Y[1][k][3] = KeyError
        THEN out(Raised(op, args, "KeyError"), NoEngineCall)
        ELSE IF \E i \in 1..Len(colnos) :
                   crosscat_cc_colno_raises(generator_id, colnos[i])
        THEN out(Raised(op, args, "ValueError"), NoEngineCall)
        ELSE IF engine_raises
        THEN out(Raised(op, args, "EngineError"), call)
        ELSE IF \E i \in 1..Len(colnos) : values[i] = KeyError
        THEN out(Raised(op, args, "KeyError"), call)
        ELSE out(Returned(op, args, <<values>>), call)

\* A simulate that inserts the row it fabricates into the table.
simulate_inserting(generator_id, constraints, colnos, code, engine_raises) ==
    /\ frame = Idle
    /\ generator_id \in DOMAIN bayesdb_generator_column
    /\ \E order \in theta_orders(generator_id) :
         LET out == simulate_returns(generator_id, constraints, colnos, order,
                                     code, engine_raises)
         IN  /\ result' = out.result
             /\ engine' = out.engine
    /\ table' = Append(table, [j \in 1..NumColumns |-> Null])
    /\ UNCHANGED <<schema_vars, generator_vars, bayesdb_generator_model,
                   bayesdb_crosscat_theta, frame>>

simulate(generator_id, constraints, colnos, code, engine_raises) ==
    /\ frame = Idle
    /\ generator_id \in DOMAIN bayesdb_generator_column
    /\ \E order \in theta_orders(generator_id) :
         LET out == simulate_returns(generator_id, constraints, colnos, order,
                                     code, engine_raises)
         IN  /\ result' = out.result
             /\ engine' = out.engine
    /\ UNCHANGED <<schema_vars, generator_vars, bayesdb_generator_model,
                   bayesdb_crosscat_theta, table, frame>>

\* The constraints callers pass: none, an empty list, a value for the
\* first column, a value for the second.
Constraints ==
    {None, Some(<<>>), Some(<< <<0, Text("a")>> >>),
     Some(<< <<1, Integer(2)>> >>)}

Simulate ==
    \E generator_id \in Generators, constraints \in Constraints,
       colnos \in ColnoLists, code \in {NaN, Float(0)},
       engine_raises \in BOOLEAN :
        simulate(generator_id, constraints, colnos, code, engine_raises)

\* The column_lists of the generators the queries are put to: the one of
\* Init, the second column alone, and an ignored column before a modelled
\* one.
ReadColumnLists ==
    {InitialColumnList,
     <<Column(1, "numerical")>>,
     <<Column(0, "ignore"), Column(1, "categorical")>>}

ReadCreateGenerator ==
    \E generator_id \in Generators, column_list \in ReadColumnLists :
        create_generator(generator_id, column_list)

\* The tables the queries are put to: the table of Spec, one with a single
\* row, and an empty one.
ReadTables == {InitialRows, << <<Null, Text("x")>> >>, <<>>}

\* A registered store without a generator, on one of the tables.
ReadInit ==
    /\ bayesdb_metamodel = crosscat_schema_v1.bayesdb_metamodel
    /\ sqlite_master = crosscat_schema_v1.sqlite_master
    /\ bayesdb_crosscat_disttype = crosscat_schema_v1.bayesdb_crosscat_disttype
    /\ bayesdb_generator_column = [g \in {} |-> <<>>]
    /\ bayesdb_generator_model = [k \in {} |-> 0]
    /\ bayesdb_crosscat_theta = [k \in {} |-> json_dumps(0)]
    /\ bayesdb_crosscat_metadata = [g \in {} |-> json_dumps(0)]
    /\ bayesdb_crosscat_column = {}
    /\ bayesdb_crosscat_column_codemap = {}
    /\ table \in ReadTables
    /\ frame = Idle
    /\ result = Outcome("open", "ok", "", FALSE, 0)
    /\ engine = NoEngineCall

\* create_generator, initialize and the nine queries.
ReadNext ==
    \/ ReadCreateGenerator
    \/ StoreInitialize
    \/ ColumnDependenceProbability
    \/ ColumnMutualInformation
    \/ ColumnTypicality
    \/ ColumnValueProbability
    \/ RowSimilarity
    \/ RowTypicality
    \/ RowColumnPredictiveProbability
    \/ Infer
    \/ Simulate

ReadSpec == ReadInit /\ [][ReadNext]_vars

(***************************************************************************)
(* The queries                                                             *)
(***************************************************************************)
\* The state the metamodel and the host keep in the database.
stored_vars == <<schema_vars, generator_vars, bayesdb_generator_model, bayesdb_crosscat_theta, table>>

\* C21: infer called with a value that is not null returns exactly that
\* value, makes no engine call and changes no state, whatever the colno
\* (listed by the generator or not), the rowid (of a row or not), the
\* threshold and the stored models: neither the table nor the thetas have
\* a part in the result.
C21_InferReturnsGivenValue ==
    [][result'.op = "infer" =>
       LET generator_id == result'.args[1]
           colno == result'.args[2]
           rowid == result'.args[3]
           threshold == result'.args[5]
       IN  \A answer \in ImputeAnswers :
             infer(generator_id, colno, rowid, Text("a"), threshold, answer)
             => /\ result' = Returned("infer",
                       <<generator_id, colno, rowid, Text("a"), threshold>>,
                       Text("a"))
                /\ engine' = NoEngineCall
                /\ UNCHANGED <<stored_vars, frame>>]_vars

\* An infer with a value has returned it though the row does not exist,
\* the generator has no models and does not list the column.
C21_Witness ==
    /\ result.op = "infer" /\ result.status = "ok"
    /\ result.args[4] = Text("a") /\ result.value = Text("a")
    /\ result.args[3] \notin 1..Len(table)
    /\ result.args[2] \notin ColnosOf(result.args[1])
    /\ theta_orders(result.args[1]) = {<<>>}

\* The names of the nine queries.
QueryOps ==
    {"column_dependence_probability", "column_mutual_information",
     "column_typicality", "column_value_probability", "row_similarity",
     "row_typicality", "row_column_predictive_probability", "infer",
     "simulate"}

\* C22: no query changes a stored theta, an iteration counter, the
\* metadata, the code map or a table row, whether it returns or raises.
C22_QueriesChangeNoState ==
    [][result'.op \in QueryOps => UNCHANGED stored_vars]_vars

\* simulate has raised after its engine call, on a generator with models.
C22_Witness ==
    /\ result.op = "simulate" /\ result.status = "error"
    /\ engine.fn = "simple_predictive_sample"
    /\ theta_orders(result.args[1]) # {<<>>}

(***************************************************************************)
(* The batches of analyze                                                  *)
(***************************************************************************)
\* C23: in every batch of analyze the engine is asked for the whole
\* remaining iteration budget when no max_seconds was given, and for one
\* step when max_seconds was given, with or without an iteration budget
\* (and for one step when neither was given); a completed batch takes
\* exactly that n_steps off the remaining budget, when there is one.
C23_BatchStepsAndBudget ==
    [][(/\ frame.pc = "analyze"
        /\ loop_condition(frame.iterations, frame.max_seconds, frame.now,
                          frame.deadline))
       => LET n_steps == IF frame.max_seconds # None THEN 1
                         ELSE IF frame.iterations # None
                         THEN frame.iterations[1] ELSE 1
          IN  /\ engine'.fn = "analyze" => engine'.n = n_steps
              /\ frame'.pc = "analyze" =>
                   frame'.iterations =
                      IF frame.iterations = None THEN None
                      ELSE Some(frame.iterations[1] - n_steps)]_vars

\* A batch of two steps has used up a budget of two iterations given
\* without max_seconds.
C23_Witness ==
    /\ frame.pc = "analyze"
    /\ frame.max_seconds = None /\ frame.given = Some(2)
    /\ frame.batches = 1 /\ frame.iterations = Some(0)
    /\ engine.fn = "analyze" /\ engine.n = 2

\* C24: in an analyze with max_seconds the deadline is looked at only
\* between batches. A batch starts only before the deadline; a batch that
\* has started and does not raise is counted, and its statements are
\* executed and kept as those of any other batch, also when the deadline
\* passes while it runs; and when the deadline has passed at a batch
\* boundary the call returns without another batch, so at most one batch
\* completes after the deadline.
C24_DeadlineBetweenBatches ==
    [][(frame.pc = "analyze" /\ frame.max_seconds # None)
       => /\ (frame'.pc = "analyze" \/ engine' # engine
                 \/ bayesdb_crosscat_theta' # bayesdb_crosscat_theta
                 \/ bayesdb_generator_model' # bayesdb_generator_model)
                => frame.now < frame.deadline
          /\ (frame'.pc = "analyze" /\ frame'.now >= frame'.deadline)
                => /\ frame.now < frame.deadline
                   /\ frame'.batches = Min(frame.batches + 1, MaxIterations + 1)
                   /\ \E seed \in Seeds :
                        LET b == analyze_batch(frame, bayesdb_generator_model,
                                     bayesdb_crosscat_theta, seed, 0)
                        IN  /\ ~b.raised
                            /\ engine'.seed = seed
                            /\ bayesdb_generator_model' = b.gm
                            /\ bayesdb_crosscat_theta' = b.th
          /\ frame.now >= frame.deadline
                => /\ frame' = Idle
                   /\ result' = Outcome("analyze", "ok", "", FALSE,
                                        frame.batches)
                   /\ UNCHANGED <<stored_vars, engine>>]_vars

\* The deadline has passed while a batch ran; the batch is counted and a
\* statement of its persist loop has changed the store.
C24_Witness ==
    /\ frame.pc = "analyze" /\ frame.max_seconds # None
    /\ frame.now >= frame.deadline
    /\ frame.batches = 1
    /\ bayesdb_generator_model # frame.before.gm

(***************************************************************************)
(* Dropping a generator beside another                                     *)
(***************************************************************************)
\* The generators of a store with two of them.
DropGenerators == {1, 2}

DropCreateGenerator ==
    \E generator_id \in DropGenerators, column_list \in ReadColumnLists :
        create_generator(generator_id, column_list)

DropInitialize ==
    \E generator_id \in DropGenerators, modelnos \in {<<0>>, <<0, 1>>} :
        initialize(generator_id, modelnos, None, FALSE)

\* A DROP GENERATOR, a statement of which may raise.
DropGeneratorOrFail ==
    \E generator_id \in DropGenerators, fail_at \in 0..NumDropStatements :
        drop_generator(generator_id, fail_at)

DropNext ==
    \/ DropCreateGenerator
    \/ DropInitialize
    \/ DropGeneratorOrFail

DropSpec == ReadInit /\ [][DropNext]_vars

\* The crosscat rows of a generator in tables as drop_statements gives them.
RowsOf(tables, generator_id) ==
    [theta |-> {k \in DOMAIN tables.theta : k[1] = generator_id},
     codemap |-> {r \in tables.codemap : r.generator_id = generator_id},
     column |-> {r \in tables.column : r.generator_id = generator_id},
     metadata |-> (DOMAIN tables.metadata) \cap {generator_id}]

\* The foreign key of bayesdb_crosscat_column_codemap: every code map row
\* has the column row of its (generator_id, cc_colno).
CodemapReferencesColumn(tables) ==
    \A r \in tables.codemap : \E c \in tables.column :
        c.generator_id = r.generator_id /\ c.cc_colno = r.cc_colno

\* C25: drop_generator deletes the generator's rows in dependency order
\* (thetas, code map, columns, metadata): after any number of its
\* statements every remaining code map row still has its column row, and
\* a table is emptied of the generator only when the tables before it are.
\* When it returns no crosscat row of the generator remains and the rows
\* of the other generators are what they were; when a statement raises
\* every deletion is rolled back and the whole store is what it was.
C25_DropInDependencyOrder ==
    [][result'.op = "drop_generator" =>
       \A generator_id \in DropGenerators, fail_at \in 0..NumDropStatements :
          drop_generator(generator_id, fail_at) =>
             LET before == drop_statements(generator_id, 0)
                 after == [theta |-> bayesdb_crosscat_theta',
                           codemap |-> bayesdb_crosscat_column_codemap',
                           column |-> bayesdb_crosscat_column',
                           metadata |-> bayesdb_crosscat_metadata']
                 own(n) == RowsOf(drop_statements(generator_id, n),
                                  generator_id)
             IN  /\ \A n \in 0..NumDropStatements :
                      /\ CodemapReferencesColumn(
                             drop_statements(generator_id, n))
                      /\ own(n).codemap # own(0).codemap => own(n).theta = {}
                      /\ own(n).column # own(0).column => own(n).codemap = {}
                      /\ own(n).metadata # own(0).metadata
                            => own(n).column = {}
                 /\ IF fail_at = 0
                    THEN /\ result'.status = "ok"
                         /\ RowsOf(after, generator_id) =
                               [theta |-> {}, codemap |-> {}, column |-> {},
                                metadata |-> {}]
                         /\ \A other \in DropGenerators \ {generator_id} :
                               /\ RowsOf(after, other) = RowsOf(before, other)
                               /\ \A k \in RowsOf(before, other).theta :
                                     after.theta[k] = before.theta[k]
                               /\ \A g \in RowsOf(before, other).metadata :
                                     after.metadata[g] = before.metadata[g]
                    ELSE /\ result'.status = "error"
                         /\ UNCHANGED stored_vars]_vars

\* A statement of a drop_generator has raised after rows of the generator
\* were deleted: its thetas and code map rows are there, beside the rows of
\* another generator.
C25_Witness ==
    /\ result.op = "drop_generator" /\ result.status = "error"
    /\ result.undone
    /\ \E g \in DropGenerators :
          /\ DropGenerators \subseteq DOMAIN bayesdb_crosscat_metadata
          /\ \A h \in DropGenerators : <<h, 0>> \in DOMAIN bayesdb_crosscat_theta
          /\ \E r \in bayesdb_crosscat_column_codemap : r.generator_id = g

(***************************************************************************)
(* The answers of the queries                                              *)
(***************************************************************************)
\* The stored models of a generator.
StoredModels(generator_id) ==
    {k \in DOMAIN bayesdb_crosscat_theta : k[1] = generator_id}

\* C26: with n >= 1 stored models, column_dependence_probability of two
\* different columns of the generator returns count / n, where n counts
\* all the models and count those in which both cc_colnos are assigned to
\* the same view and the rows of that view fall in more than one cluster;
\* of a column and itself it returns 1; the result lies in [0, 1].
C26_DependenceProbability ==
    (/\ result.op = "column_dependence_probability"
     /\ StoredModels(result.args[1]) # {})
    => LET generator_id == result.args[1]
           colno0 == result.args[2]
           colno1 == result.args[3]
           models == StoredModels(generator_id)
           theta(k) == ThetaOf(bayesdb_crosscat_theta, k)
           view(k, colno) ==
               column_partition_assignments(theta(k).X_L,
                   crosscat_cc_colno(generator_id, colno))
           dependent == {k \in models :
                           /\ view(k, colno0) = view(k, colno1)
                           /\ unique_row_clusters(theta(k).X_D,
                                                  view(k, colno0)) > 1}
       IN  IF colno0 = colno1
           THEN result.status = "ok" /\ result.value = Integer(1)
           ELSE IF {colno0, colno1} \subseteq ColnosOf(generator_id)
           THEN /\ result.status = "ok"
                /\ result.value = Quotient(Cardinality(dependent),
                                           Cardinality(models))
                /\ 0 <= result.value.n /\ result.value.n <= result.value.d
           ELSE result.status = "error"

\* With two models stored, the two columns share a view of more than one
\* row cluster in one of them: the answer is 1/2.
C26_Witness ==
    /\ result.op = "column_dependence_probability"
    /\ result.status = "ok"
    /\ result.args[2] # result.args[3]
    /\ result.value = Quotient(1, 2)

\* The engine functions the queries call.
QueryFns ==
    {"mutual_information", "column_structural_typicality",
     "simple_predictive_probability_multistate", "similarity",
     "row_structural_typicality", "impute_and_confidence",
     "simple_predictive_sample"}

\* The models the entries of the X_L list of an engine call come from, and
\* those of its X_D list (column_structural_typicality takes no X_D list).
X_L_models(call) ==
    IF call.fn \in {"impute_and_confidence", "simple_predictive_sample"}
    THEN call.X_L ELSE call.X_L_list

X_D_models(call) ==
    IF call.fn \in {"impute_and_confidence", "simple_predictive_sample"}
    THEN call.X_D
    ELSE IF call.fn = "column_structural_typicality" THEN call.X_L_list
    ELSE call.X_D_list

\* C27: the thetas of a generator are retrieved in ascending modelno order,
\* so that in every engine call of a query entry i of the X_L list and
\* entry i of the X_D list, retrieved separately, come from the same model.
C27_ThetasAscendingAndAligned ==
    engine.fn \in QueryFns
    => /\ \A i, j \in 1..Len(X_L_models(engine)) :
             i < j => X_L_models(engine)[i] < X_L_models(engine)[j]
       /\ X_D_models(engine) = X_L_models(engine)

\* The compacted number of a column of a generator, and NoColno for a
\* column that has none.
CcColno(generator_id, colno) ==
    IF crosscat_cc_colno_raises(generator_id, colno) THEN NoColno
    ELSE crosscat_cc_colno(generator_id, colno)

\* C28: every column identifier a query sends to the engine (the Q pair of
\* column_mutual_information, the col_id of column_typicality, the
\* target_columns of row_similarity, the Q entries of
\* column_value_probability and row_column_predictive_probability, the Y
\* and Q entries of infer and of simulate) is the cc_colno of the column,
\* and every row identifier sent for a rowid is rowid - 1.
C28_EngineGetsCcColnosAndRowIds ==
    (result.op \in QueryOps /\ engine.fn \in QueryFns)
    => LET g == result.args[1]
           a == result.args
           cc(colno) == CcColno(g, colno)
       IN  /\ result.op = "column_mutual_information"
                => engine.Q = << <<cc(a[2]), cc(a[3])>> >>
           /\ result.op = "column_typicality" => engine.col_id = cc(a[2])
           /\ result.op = "column_value_probability"
                => engine.Q[1][2] = cc(a[2])
           /\ result.op = "row_similarity"
                => /\ engine.given_row_id = a[2] - 1
                   /\ engine.target_row_id = a[3] - 1
                   /\ engine.target_columns =
                         [i \in 1..Len(a[4]) |-> cc(a[4][i])]
           /\ result.op = "row_typicality" => engine.row_id = a[2] - 1
           /\ result.op = "row_column_predictive_probability"
                => /\ engine.Q[1][1] = a[2] - 1
                   /\ engine.Q[1][2] = cc(a[3])
           /\ result.op = "infer"
                => /\ engine.Q = << <<a[3] - 1, cc(a[2])>> >>
                   /\ \A k \in 1..Len(engine.Y) :
                         /\ engine.Y[k][1] = a[3] - 1
                         /\ ~crosscat_gen_colno_raises(g, engine.Y[k][2])
           /\ result.op = "simulate"
                => /\ engine.Q = [i \in 1..Len(a[3]) |->
                                    <<Len(table), cc(a[3][i])>>]
                   /\ a[2] # None
                        => engine.Y = Some([k \in 1..Len(a[2][1]) |->
                              <<Len(table), cc(a[2][1][k][1]),
                                engine.Y[1][k][3]>>])

\* The stattypes the engine models.
Modelled == {"categorical", "numerical", "cyclic"}

C30_MutualInformationSamples ==
    result.op = "column_mutual_information"
    => LET nmodels == Cardinality(StoredModels(result.args[1]))
           numsamples == IF result.args[4] = None THEN DefaultNumSamples
                         ELSE result.args[4][1]
       IN  /\ result.error # "ZeroDivisionError"
           /\ engine.fn = "mutual_information"
                => /\ engine.n_samples * nmodels >= numsamples
                   /\ (engine.n_samples - 1) * nmodels < numsamples
           /\ result.status = "ok"
                => \E mi \in [1..nmodels -> {0, 1}] :
                      result.value = Quotient(float_sum(mi), nmodels)

(***************************************************************************)
(* The two iteration counts of a model                                     *)
(***************************************************************************)
\* C31: for every model, the iteration count inside its theta blob and the
\* iterations column of the host's bayesdb_generator_model row are equal
\* after every committed operation: 0 after initialize, and grown by the
\* same n_steps in every batch of analyze.
C31_IterationCountsAgree ==
    \A key \in ModelsOf(bayesdb_generator_model, bayesdb_crosscat_theta, 1) :
        ThetaOf(bayesdb_crosscat_theta, key).iterations
            = bayesdb_generator_model[key]

====
